---- MODULE Spec2Model ----
(***************************************************************************)
(* A model of the UK finance and tax law monitor (main.py, database.py,    *)
(* config.py): the monitoring cycle of LawMonitorAgent.check_for_updates   *)
(* over the MonitoredSources and DetectedChanges tables, and the question  *)
(* loop handle_user_questions over the UserEnquiries table.                *)
(*                                                                         *)
(* Python values are records tagged by type, so that None compares with    *)
(* every other value.  A Python string is a sequence of segments, each a   *)
(* string literal; the string is the concatenation of its segments and     *)
(* Chars spells each segment character by character.                       *)
(***************************************************************************)
EXTENDS Integers, Sequences, FiniteSets, TLC

\* ------------------------------------------------------------------------
\* Bounds of the model
\* ------------------------------------------------------------------------

\* Monitoring cycles one agent process runs.
MaxCycles == 2

\* Failures and unusual replies the environment injects in the monitoring
\* cycles of one behaviour.
MaxFaults == 1

\* Failures and unusual replies the environment injects in one run of the
\* Q&A loop.
MaxQaFaults == 2

\* The questions one run of the Q&A loop is asked.
MaxQuestions == 2

\* The pieces of text an output of the model is made of.
MaxPieces == 3

\* The words of a question.
MaxWords == 3

\* ------------------------------------------------------------------------
\* Python values
\* ------------------------------------------------------------------------

None == [t |-> "none"]

Str(text) == [t |-> "str", v |-> text]

PyInt(n) == [t |-> "int", v |-> n]

List(items) == [t |-> "list", v |-> items]

\* A dict: a function from its keys to their values.
Dict(items) == [t |-> "dict", v |-> items]

EmptyDict == Dict(<<>>)

\* The truth value of x in `if x:` and `if not x:`.
Truthy(x) ==
  CASE x.t = "none" -> FALSE
    [] x.t = "str"  -> x.v # <<>>
    [] x.t = "int"  -> x.v # 0
    [] x.t = "list" -> x.v # <<>>
    [] x.t = "dict" -> DOMAIN x.v # {}
    [] OTHER        -> TRUE

\* Whether x.get(...) exists: only a dict has the method.
HasGet(x) == x.t = "dict"

\* d.get(key, default) of a dict d.
DictGet(d, key, default) == IF key \in DOMAIN d.v THEN d.v[key] ELSE default

\* Whether x[:n] is defined: a str or a list can be sliced, None, a number
\* or a dict cannot (TypeError).
Sliceable(x) == x.t \in {"str", "list"}

\* ------------------------------------------------------------------------
\* Strings
\* ------------------------------------------------------------------------

\* The characters of the 200-character opening of a long paragraph.
SnippetLen == 200

\* -- Chars table: begin
Chars(s) ==
  CASE   s = "The Chancellor has announced changes to income tax thresholds and rates for the coming financial year, together with new reliefs for savers, small businesses and first-time buyers across the UK, from " ->
    <<"T","h","e"," ","C","h","a","n","c","e","l","l","o","r"," ","h","a","s"," ","a","n","n","o","u","n","c","e","d"," ","c","h","a","n","g","e","s"," ","t","o"," ","i","n","c","o","m","e"," ","t","a","x"," ","t","h","r","e","s","h","o","l","d","s"," ","a","n","d"," ","r","a","t","e","s"," ","f","o","r"," ","t","h","e"," ","c","o","m","i","n","g"," ","f","i","n","a","n","c","i","a","l"," ","y","e","a","r",","," ","t","o","g","e","t","h","e","r"," ","w","i","t","h"," ","n","e","w"," ","r","e","l","i","e","f","s"," ","f","o","r"," ","s","a","v","e","r","s",","," ","s","m","a","l","l"," ","b","u","s","i","n","e","s","s","e","s"," ","a","n","d"," ","f","i","r","s","t","-","t","i","m","e"," ","b","u","y","e","r","s"," ","a","c","r","o","s","s"," ","t","h","e"," ","U","K",","," ","f","r","o","m"," ">>
  []   s = "HMRC Update" ->
    <<"H","M","R","C"," ","U","p","d","a","t","e">>
  []   s = "No changes today." ->
    <<"N","o"," ","c","h","a","n","g","e","s"," ","t","o","d","a","y",".">>
  []   s = "6 April." ->
    <<"6"," ","A","p","r","i","l",".">>
  []   s = "/budget" ->
    <<"/","b","u","d","g","e","t">>
  []   s = "1 May." ->
    <<"1"," ","M","a","y",".">>
  []   s = "application/pdf" ->
    <<"a","p","p","l","i","c","a","t","i","o","n","/","p","d","f">>
  []   s = "text/html; charset=UTF-8" ->
    <<"t","e","x","t","/","h","t","m","l",";"," ","c","h","a","r","s","e","t","=","U","T","F","-","8">>
  []   s = "text/html" ->
    <<"t","e","x","t","/","h","t","m","l">>
  []   s = "text/plain" ->
    <<"t","e","x","t","/","p","l","a","i","n">>
  []   s = "No content" ->
    <<"N","o"," ","c","o","n","t","e","n","t">>
  []   s = "No title found" ->
    <<"N","o"," ","t","i","t","l","e"," ","f","o","u","n","d">>
  []   s = "No paragraph found" ->
    <<"N","o"," ","p","a","r","a","g","r","a","p","h"," ","f","o","u","n","d">>
  []   s = "Title: " ->
    <<"T","i","t","l","e",":"," ">>
  []   s = " - Snippet: " ->
    <<" ","-"," ","S","n","i","p","p","e","t",":"," ">>
  []   s = "..." ->
    <<".",".",".">>
  []   s = "{\"change_type\": \"Tax Rate Update\", \"main_summary\": \"Income tax rates change.\", \"key_details\": [\"6 April\"]}" ->
    <<"{","\"","c","h","a","n","g","e","_","t","y","p","e","\"",":"," ","\"","T","a","x"," ","R","a","t","e"," ","U","p","d","a","t","e","\"",","," ","\"","m","a","i","n","_","s","u","m","m","a","r","y","\"",":"," ","\"","I","n","c","o","m","e"," ","t","a","x"," ","r","a","t","e","s"," ","c","h","a","n","g","e",".","\"",","," ","\"","k","e","y","_","d","e","t","a","i","l","s","\"",":"," ","[","\"","6"," ","A","p","r","i","l","\"","]","}">>
  []   s = "{\"change_type\": \"General Announcement\"}" ->
    <<"{","\"","c","h","a","n","g","e","_","t","y","p","e","\"",":"," ","\"","G","e","n","e","r","a","l"," ","A","n","n","o","u","n","c","e","m","e","n","t","\"","}">>
  []   s = "{\"change_type\": \"General Announcement\", \"main_summary\": null}" ->
    <<"{","\"","c","h","a","n","g","e","_","t","y","p","e","\"",":"," ","\"","G","e","n","e","r","a","l"," ","A","n","n","o","u","n","c","e","m","e","n","t","\"",","," ","\"","m","a","i","n","_","s","u","m","m","a","r","y","\"",":"," ","n","u","l","l","}">>
  []   s = "Tax Rate Update" ->
    <<"T","a","x"," ","R","a","t","e"," ","U","p","d","a","t","e">>
  []   s = "Income tax rates change." ->
    <<"I","n","c","o","m","e"," ","t","a","x"," ","r","a","t","e","s"," ","c","h","a","n","g","e",".">>
  []   s = "6 April" ->
    <<"6"," ","A","p","r","i","l">>
  []   s = "General Announcement" ->
    <<"G","e","n","e","r","a","l"," ","A","n","n","o","u","n","c","e","m","e","n","t">>
  []   s = "{}" ->
    <<"{","}">>
  []   s = "[1]" ->
    <<"[","1","]">>
  []   s = "Connection error." ->
    <<"C","o","n","n","e","c","t","i","o","n"," ","e","r","r","o","r",".">>
  []   s = "Configuration Error" ->
    <<"C","o","n","f","i","g","u","r","a","t","i","o","n"," ","E","r","r","o","r">>
  []   s = "High" ->
    <<"H","i","g","h">>
  []   s = "OpenAI API key not found. Unable to perform AI analysis." ->
    <<"O","p","e","n","A","I"," ","A","P","I"," ","k","e","y"," ","n","o","t"," ","f","o","u","n","d","."," ","U","n","a","b","l","e"," ","t","o"," ","p","e","r","f","o","r","m"," ","A","I"," ","a","n","a","l","y","s","i","s",".">>
  []   s = "No Semantic Change Detected (Summary Identical)" ->
    <<"N","o"," ","S","e","m","a","n","t","i","c"," ","C","h","a","n","g","e"," ","D","e","t","e","c","t","e","d"," ","(","S","u","m","m","a","r","y"," ","I","d","e","n","t","i","c","a","l",")">>
  []   s = "Low" ->
    <<"L","o","w">>
  []   s = "The textual summary of the content appears identical to the previous version." ->
    <<"T","h","e"," ","t","e","x","t","u","a","l"," ","s","u","m","m","a","r","y"," ","o","f"," ","t","h","e"," ","c","o","n","t","e","n","t"," ","a","p","p","e","a","r","s"," ","i","d","e","n","t","i","c","a","l"," ","t","o"," ","t","h","e"," ","p","r","e","v","i","o","u","s"," ","v","e","r","s","i","o","n",".">>
  []   s = "AI Response Error" ->
    <<"A","I"," ","R","e","s","p","o","n","s","e"," ","E","r","r","o","r">>
  []   s = "Unknown" ->
    <<"U","n","k","n","o","w","n">>
  []   s = "Failed to parse structured data from AI response." ->
    <<"F","a","i","l","e","d"," ","t","o"," ","p","a","r","s","e"," ","s","t","r","u","c","t","u","r","e","d"," ","d","a","t","a"," ","f","r","o","m"," ","A","I"," ","r","e","s","p","o","n","s","e",".">>
  []   s = "Raw AI output: " ->
    <<"R","a","w"," ","A","I"," ","o","u","t","p","u","t",":"," ">>
  []   s = "AI Processing Error" ->
    <<"A","I"," ","P","r","o","c","e","s","s","i","n","g"," ","E","r","r","o","r">>
  []   s = "An error occurred while communicating with or processing AI response: " ->
    <<"A","n"," ","e","r","r","o","r"," ","o","c","c","u","r","r","e","d"," ","w","h","i","l","e"," ","c","o","m","m","u","n","i","c","a","t","i","n","g"," ","w","i","t","h"," ","o","r"," ","p","r","o","c","e","s","s","i","n","g"," ","A","I"," ","r","e","s","p","o","n","s","e",":"," ">>
  []   s = "the JSON object must be str, bytes or bytearray, not NoneType" ->
    <<"t","h","e"," ","J","S","O","N"," ","o","b","j","e","c","t"," ","m","u","s","t"," ","b","e"," ","s","t","r",","," ","b","y","t","e","s"," ","o","r"," ","b","y","t","e","a","r","r","a","y",","," ","n","o","t"," ","N","o","n","e","T","y","p","e">>
  []   s = "Expecting value: line 1 column 1 (char 0)" ->
    <<"E","x","p","e","c","t","i","n","g"," ","v","a","l","u","e",":"," ","l","i","n","e"," ","1"," ","c","o","l","u","m","n"," ","1"," ","(","c","h","a","r"," ","0",")">>
  []   s = "HMRC_Tax_Updates" ->
    <<"H","M","R","C","_","T","a","x","_","U","p","d","a","t","e","s">>
  []   s = "FCA_Regulations" ->
    <<"F","C","A","_","R","e","g","u","l","a","t","i","o","n","s">>
  []   s = "https://www.gov.uk/government/organisations/hm-revenue-customs/announcements" ->
    <<"h","t","t","p","s",":","/","/","w","w","w",".","g","o","v",".","u","k","/","g","o","v","e","r","n","m","e","n","t","/","o","r","g","a","n","i","s","a","t","i","o","n","s","/","h","m","-","r","e","v","e","n","u","e","-","c","u","s","t","o","m","s","/","a","n","n","o","u","n","c","e","m","e","n","t","s">>
  []   s = "https://www.fca.org.uk/news" ->
    <<"h","t","t","p","s",":","/","/","w","w","w",".","f","c","a",".","o","r","g",".","u","k","/","n","e","w","s">>
  []   s = "N/A (first check)" ->
    <<"N","/","A"," ","(","f","i","r","s","t"," ","c","h","e","c","k",")">>
  []   s = "N/A" ->
    <<"N","/","A">>
  []   s = "None" ->
    <<"N","o","n","e">>
  []   s = "Disclaimer: This information is for guidance only and not professional financial advice. Please consult with a qualified financial advisor for advice tailored to your specific situation." ->
    <<"D","i","s","c","l","a","i","m","e","r",":"," ","T","h","i","s"," ","i","n","f","o","r","m","a","t","i","o","n"," ","i","s"," ","f","o","r"," ","g","u","i","d","a","n","c","e"," ","o","n","l","y"," ","a","n","d"," ","n","o","t"," ","p","r","o","f","e","s","s","i","o","n","a","l"," ","f","i","n","a","n","c","i","a","l"," ","a","d","v","i","c","e","."," ","P","l","e","a","s","e"," ","c","o","n","s","u","l","t"," ","w","i","t","h"," ","a"," ","q","u","a","l","i","f","i","e","d"," ","f","i","n","a","n","c","i","a","l"," ","a","d","v","i","s","o","r"," ","f","o","r"," ","a","d","v","i","c","e"," ","t","a","i","l","o","r","e","d"," ","t","o"," ","y","o","u","r"," ","s","p","e","c","i","f","i","c"," ","s","i","t","u","a","t","i","o","n",".">>
  []   s = "I am unable to process your request at this time due to a configuration issue. Please contact support." ->
    <<"I"," ","a","m"," ","u","n","a","b","l","e"," ","t","o"," ","p","r","o","c","e","s","s"," ","y","o","u","r"," ","r","e","q","u","e","s","t"," ","a","t"," ","t","h","i","s"," ","t","i","m","e"," ","d","u","e"," ","t","o"," ","a"," ","c","o","n","f","i","g","u","r","a","t","i","o","n"," ","i","s","s","u","e","."," ","P","l","e","a","s","e"," ","c","o","n","t","a","c","t"," ","s","u","p","p","o","r","t",".">>
  []   s = "I apologize, but I encountered an error while trying to generate an answer. Please try again later." ->
    <<"I"," ","a","p","o","l","o","g","i","z","e",","," ","b","u","t"," ","I"," ","e","n","c","o","u","n","t","e","r","e","d"," ","a","n"," ","e","r","r","o","r"," ","w","h","i","l","e"," ","t","r","y","i","n","g"," ","t","o"," ","g","e","n","e","r","a","t","e"," ","a","n"," ","a","n","s","w","e","r","."," ","P","l","e","a","s","e"," ","t","r","y"," ","a","g","a","i","n"," ","l","a","t","e","r",".">>
  []   s = "I could not find specific information" ->
    <<"I"," ","c","o","u","l","d"," ","n","o","t"," ","f","i","n","d"," ","s","p","e","c","i","f","i","c"," ","i","n","f","o","r","m","a","t","i","o","n">>
  []   s = "The basic rate of income tax is 20%." ->
    <<"T","h","e"," ","b","a","s","i","c"," ","r","a","t","e"," ","o","f"," ","i","n","c","o","m","e"," ","t","a","x"," ","i","s"," ","2","0","%",".">>
  []   s = "\n\n" ->
    <<"\n","\n">>
  []   s = " on that topic." ->
    <<" ","o","n"," ","t","h","a","t"," ","t","o","p","i","c",".">>
  []   s = "UnboundLocalError" ->
    <<"U","n","b","o","u","n","d","L","o","c","a","l","E","r","r","o","r">>
  []   s = "Found information: " ->
    <<"F","o","u","n","d"," ","i","n","f","o","r","m","a","t","i","o","n",":"," ">>
  []   s = " Key details: " ->
    <<" ","K","e","y"," ","d","e","t","a","i","l","s",":"," ">>
  []   s = ", " ->
    <<","," ">>
  []   s = "No specific information found in the local knowledge base for the given keywords." ->
    <<"N","o"," ","s","p","e","c","i","f","i","c"," ","i","n","f","o","r","m","a","t","i","o","n"," ","f","o","u","n","d"," ","i","n"," ","t","h","e"," ","l","o","c","a","l"," ","k","n","o","w","l","e","d","g","e"," ","b","a","s","e"," ","f","o","r"," ","t","h","e"," ","g","i","v","e","n"," ","k","e","y","w","o","r","d","s",".">>
  []   s = "Found some database entries but could not form a concise text summary from them." ->
    <<"F","o","u","n","d"," ","s","o","m","e"," ","d","a","t","a","b","a","s","e"," ","e","n","t","r","i","e","s"," ","b","u","t"," ","c","o","u","l","d"," ","n","o","t"," ","f","o","r","m"," ","a"," ","c","o","n","c","i","s","e"," ","t","e","x","t"," ","s","u","m","m","a","r","y"," ","f","r","o","m"," ","t","h","e","m",".">>
  []   s = "encountered an error" ->
    <<"e","n","c","o","u","n","t","e","r","e","d"," ","a","n"," ","e","r","r","o","r">>
  []   s = "answered" ->
    <<"a","n","s","w","e","r","e","d">>
  []   s = "no_info_found" ->
    <<"n","o","_","i","n","f","o","_","f","o","u","n","d">>
  []   s = "Quit" ->
    <<"Q","u","i","t">>
  []   s = "  " ->
    <<" "," ">>
  []   s = "What is the income tax rate?" ->
    <<"W","h","a","t"," ","i","s"," ","t","h","e"," ","i","n","c","o","m","e"," ","t","a","x"," ","r","a","t","e","?">>
  []   s = "VAT on books" ->
    <<"V","A","T"," ","o","n"," ","b","o","o","k","s">>
  []   s = "Is it so" ->
    <<"I","s"," ","i","t"," ","s","o">>
  []   s = "Could not log your question to the database. Please try again." ->
    <<"C","o","u","l","d"," ","n","o","t"," ","l","o","g"," ","y","o","u","r"," ","q","u","e","s","t","i","o","n"," ","t","o"," ","t","h","e"," ","d","a","t","a","b","a","s","e","."," ","P","l","e","a","s","e"," ","t","r","y"," ","a","g","a","i","n",".">>
  []   s = "\nFinanceAdvisor says:\n" ->
    <<"\n","F","i","n","a","n","c","e","A","d","v","i","s","o","r"," ","s","a","y","s",":","\n">>
  []   s = "An error occurred in the Q&A loop: " ->
    <<"A","n"," ","e","r","r","o","r"," ","o","c","c","u","r","r","e","d"," ","i","n"," ","t","h","e"," ","Q","&","A"," ","l","o","o","p",":"," ">>
  []   s = "quit" ->
    <<"q","u","i","t">>
  []   s = "processing_search" ->
    <<"p","r","o","c","e","s","s","i","n","g","_","s","e","a","r","c","h">>
  []   s = "psycopg2.Error" ->
    <<"p","s","y","c","o","p","g","2",".","E","r","r","o","r">>
  []   s = "Disclaimer: This information is for guidance only and not professional financial advice." ->
    <<"D","i","s","c","l","a","i","m","e","r",":"," ","T","h","i","s"," ","i","n","f","o","r","m","a","t","i","o","n"," ","i","s"," ","f","o","r"," ","g","u","i","d","a","n","c","e"," ","o","n","l","y"," ","a","n","d"," ","n","o","t"," ","p","r","o","f","e","s","s","i","o","n","a","l"," ","f","i","n","a","n","c","i","a","l"," ","a","d","v","i","c","e",".">>
  []   s = " Please consult with a qualified financial advisor for advice tailored to your specific situation." ->
    <<" ","P","l","e","a","s","e"," ","c","o","n","s","u","l","t"," ","w","i","t","h"," ","a"," ","q","u","a","l","i","f","i","e","d"," ","f","i","n","a","n","c","i","a","l"," ","a","d","v","i","s","o","r"," ","f","o","r"," ","a","d","v","i","c","e"," ","t","a","i","l","o","r","e","d"," ","t","o"," ","y","o","u","r"," ","s","p","e","c","i","f","i","c"," ","s","i","t","u","a","t","i","o","n",".">>
  []   s = "tax?" ->
    <<"t","a","x","?">>
  []   s = "is?" ->
    <<"i","s","?">>
  []   s = "VAT" ->
    <<"V","A","T">>
  []   s = "Rates," ->
    <<"R","a","t","e","s",",">>
  []   s = "on" ->
    <<"o","n">>
  []   s = "books." ->
    <<"b","o","o","k","s",".">>
  []   s = "once" ->
    <<"o","n","c","e">>
  []   s = "keywords" ->
    <<"k","e","y","w","o","r","d","s">>
  [] OTHER -> <<s>>
\* -- Chars table: end

RECURSIVE Flatten(_)
\* The characters of a string.
Flatten(text) ==
  IF text = <<>> THEN <<>> ELSE Chars(Head(text)) \o Flatten(Tail(text))

RECURSIVE Slice(_, _)
\* text[:n]: whole segments while they fit, then the characters of the
\* segment the cut falls in.
Slice(text, n) ==
  IF text = <<>> \/ n <= 0 THEN <<>>
  ELSE LET c == Chars(Head(text))
       IN IF Len(c) <= n
            THEN <<Head(text)>> \o Slice(Tail(text), n - Len(c))
            ELSE SubSeq(c, 1, n)

\* needle in hay, on characters.
IsSubstring(needle, hay) ==
  \/ needle = <<>>
  \/ \E i \in 1..(Len(hay) - Len(needle) + 1) :
       /\ hay[i] = needle[1]
       /\ SubSeq(hay, i, i + Len(needle) - 1) = needle

\* `a in b` of two strings.
In(a, b) == IsSubstring(Flatten(a), Flatten(b))

\* c.lower() of one character.
LowerChar(c) ==
  CASE c = "A" -> "a" [] c = "B" -> "b" [] c = "C" -> "c" [] c = "D" -> "d"
    [] c = "E" -> "e" [] c = "F" -> "f" [] c = "G" -> "g" [] c = "H" -> "h"
    [] c = "I" -> "i" [] c = "J" -> "j" [] c = "K" -> "k" [] c = "L" -> "l"
    [] c = "M" -> "m" [] c = "N" -> "n" [] c = "O" -> "o" [] c = "P" -> "p"
    [] c = "Q" -> "q" [] c = "R" -> "r" [] c = "S" -> "s" [] c = "T" -> "t"
    [] c = "U" -> "u" [] c = "V" -> "v" [] c = "W" -> "w" [] c = "X" -> "x"
    [] c = "Y" -> "y" [] c = "Z" -> "z" [] OTHER -> c

\* text.lower(): a string of one-character segments.
Lower(text) ==
  LET cs == Flatten(text) IN [i \in 1..Len(cs) |-> LowerChar(cs[i])]

\* ------------------------------------------------------------------------
\* Helper functions of main.py
\* ------------------------------------------------------------------------

\* hashlib.md5(...).hexdigest() of a string: one digest per string.
Md5(text) == [t |-> "digest", of |-> text]

get_content_hash(content_string) ==
  IF ~Truthy(content_string) THEN Md5(<<>>) ELSE Md5(content_string.v)

\* A fetched document: an HTML text, given by what BeautifulSoup finds in it
\* (the first h1, the first p and the first link inside that p) and by the
\* rest of its markup.
Html(h1, p, a, rest) == [t |-> "html", h1 |-> h1, p |-> p, a |-> a, rest |-> rest]

LongOpening ==
  "The Chancellor has announced changes to income tax thresholds and rates for the coming financial year, together with new reliefs for savers, small businesses and first-time buyers across the UK, from "

PageA == Html(Str(<<"HMRC Update">>), Str(<<"No changes today.">>), None, 0)

PageB ==
  Html(Str(<<"HMRC Update">>), Str(<<LongOpening, "6 April.">>),
       Str(<<"/budget">>), 0)

\* PageB with another ending of the paragraph and other markup around it.
PageB2 ==
  Html(Str(<<"HMRC Update">>), Str(<<LongOpening, "1 May.">>),
       Str(<<"/budget">>), 1)

Pages == {PageA, PageB, PageB2}

\* What requests.get does for one fetch.
FetchFailures ==
  { [kind |-> "Timeout"], [kind |-> "HTTPError"], [kind |-> "RequestException"],
    [kind |-> "response", content_type |-> <<"application/pdf">>, text |-> PageA] }

FetchSuccesses ==
  { [kind |-> "response", content_type |-> ct, text |-> page] :
      ct \in {<<"text/html; charset=UTF-8">>}, page \in Pages }

\* A response of a suitable type whose body is the empty string.
FetchEmpty ==
  { [kind |-> "response", content_type |-> <<"text/html; charset=UTF-8">>,
     text |-> Str(<<>>)] }

\* A fetch that returns the text of a response of any content type.
fetch_web_content_any_type(got) ==
  IF got.kind # "response" THEN None ELSE got.text

fetch_web_content(got) ==
  IF got.kind # "response" THEN None
  ELSE LET content_type == Lower(got.content_type)
       IN IF \/ In(<<"text/html">>, content_type)
             \/ In(<<"text/plain">>, content_type)
             \/ content_type = <<>>
            THEN got.text
            ELSE None

\* The pair (extracted_summary, link_url).
extract_relevant_info(html_content) ==
  IF ~Truthy(html_content)
    THEN [summary |-> Str(<<"No content">>), link_url |-> None]
    ELSE LET title == IF html_content.h1 # None
                        THEN html_content.h1.v ELSE <<"No title found">>
             paragraph == IF html_content.p # None
                            THEN html_content.p.v ELSE <<"No paragraph found">>
             link_url == IF html_content.p # None /\ html_content.a # None
                           THEN html_content.a ELSE None
         IN [summary |-> Str(<<"Title: ">> \o title \o <<" - Snippet: ">>
                             \o Slice(paragraph, SnippetLen) \o <<"...">>),
             link_url |-> link_url]

\* ------------------------------------------------------------------------
\* The classifier, analyze_content_for_changes_ai
\* ------------------------------------------------------------------------

JsonFull ==
  "{\"change_type\": \"Tax Rate Update\", \"main_summary\": \"Income tax rates change.\", \"key_details\": [\"6 April\"]}"

JsonNoSummary == "{\"change_type\": \"General Announcement\"}"

JsonNullSummary == "{\"change_type\": \"General Announcement\", \"main_summary\": null}"

\* json.loads on the documents the model's replies hold; any other text is
\* no JSON (JSONDecodeError).
JsonLoads(text) ==
  CASE text = <<JsonFull>> ->
         [ok |-> TRUE,
          value |-> Dict([change_type |-> Str(<<"Tax Rate Update">>),
                          main_summary |-> Str(<<"Income tax rates change.">>),
                          key_details |-> List(<<Str(<<"6 April">>)>>)])]
    [] text = <<JsonNoSummary>> ->
         [ok |-> TRUE,
          value |-> Dict([change_type |-> Str(<<"General Announcement">>)])]
    [] text = <<JsonNullSummary>> ->
         [ok |-> TRUE,
          value |-> Dict([change_type |-> Str(<<"General Announcement">>),
                          main_summary |-> None])]
    [] text = <<"{}">> -> [ok |-> TRUE, value |-> EmptyDict]
    [] text = <<"[1]">> -> [ok |-> TRUE, value |-> List(<<PyInt(1)>>)]
    [] OTHER -> [ok |-> FALSE, value |-> None]

\* What client.chat.completions.create does for one call: it raises, or it
\* answers with response.choices[0].message.content.
Raises(err) == [kind |-> "raise", err |-> err]

Content(c) == [kind |-> "content", content |-> c]

\* The reply the classifier's prompt asks for.
ClassifierReplyOk == Content(Str(<<JsonFull>>))

\* The other replies: a failed call, no content, text that is no JSON (and
\* longer than the 200 characters kept of it), JSON of another shape.
ClassifierRepliesOdd ==
  { Raises("Connection error."),
    Content(None),
    Content(Str(<<LongOpening, "6 April.">>)),
    Content(Str(<<JsonNoSummary>>)),
    Content(Str(<<JsonNullSummary>>)),
    Content(Str(<<"{}">>)),
    Content(Str(<<"[1]">>)) }

\* What a call of a function gives its caller: a value, or an exception.
Return(value) == [raised |-> FALSE, value |-> value]

Raise(exc) == [raised |-> TRUE, exc |-> exc]

ConfigurationErrorRecord ==
  Dict([change_type |-> Str(<<"Configuration Error">>),
        significance_level |-> Str(<<"High">>),
        main_summary |->
          Str(<<"OpenAI API key not found. Unable to perform AI analysis.">>),
        key_details |-> List(<<>>),
        affected_parties |-> List(<<>>)])

NoSemanticChangeRecord ==
  Dict([change_type |-> Str(<<"No Semantic Change Detected (Summary Identical)">>),
        significance_level |-> Str(<<"Low">>),
        main_summary |->
          Str(<<"The textual summary of the content appears identical to the previous version.">>),
        key_details |-> List(<<>>),
        affected_parties |-> List(<<>>)])

AIResponseErrorRecord(ai_response_content) ==
  Dict([change_type |-> Str(<<"AI Response Error">>),
        significance_level |-> Str(<<"Unknown">>),
        main_summary |->
          Str(<<"Failed to parse structured data from AI response.">>),
        key_details |->
          List(<<Str(<<"Raw AI output: ">>
                     \o Slice(ai_response_content.v, SnippetLen) \o <<"...">>)>>),
        affected_parties |-> List(<<>>)])

AIProcessingErrorRecord(e) ==
  Dict([change_type |-> Str(<<"AI Processing Error">>),
        significance_level |-> Str(<<"Unknown">>),
        main_summary |->
          Str(<<"An error occurred while communicating with or processing AI response: ", e>>),
        key_details |-> List(<<>>),
        affected_parties |-> List(<<>>)])

\* A try block whose only handler is the general one.
ClassifierCallOneHandler(reply) ==
  IF reply.kind = "raise" THEN AIProcessingErrorRecord(reply.err)
  ELSE LET ai_response_content == reply.content
       IN IF ai_response_content.t # "str"
            THEN AIProcessingErrorRecord(
                   "the JSON object must be str, bytes or bytearray, not NoneType")
            ELSE IF ~JsonLoads(ai_response_content.v).ok
                   THEN AIProcessingErrorRecord(
                          "Expecting value: line 1 column 1 (char 0)")
                   ELSE JsonLoads(ai_response_content.v).value

\* The try block: the model call and json.loads, with its two handlers.
ClassifierCall(reply) ==
  IF reply.kind = "raise" THEN AIProcessingErrorRecord(reply.err)
  ELSE LET ai_response_content == reply.content
       IN IF ai_response_content.t # "str"
            THEN AIProcessingErrorRecord(
                   "the JSON object must be str, bytes or bytearray, not NoneType")
            ELSE IF ~JsonLoads(ai_response_content.v).ok
                   THEN AIResponseErrorRecord(ai_response_content)
                   ELSE JsonLoads(ai_response_content.v).value

\* key: whether config.OPENAI_API_KEY is set; reply: what the model call does
\* if it is made.  The result says whether the model was called.
\* A classifier that returns nothing when the key is missing.
analyze_content_for_changes_ai_silent_without_key(previous_content_summary, current_content_summary, key, reply) ==
  IF ~key
    THEN Return(None) @@ [called |-> FALSE]
  ELSE IF previous_content_summary = current_content_summary
    THEN Return(NoSemanticChangeRecord) @@ [called |-> FALSE]
  ELSE IF ~Sliceable(previous_content_summary)
    THEN Raise("TypeError") @@ [called |-> FALSE]
  ELSE Return(ClassifierCall(reply)) @@ [called |-> TRUE]

analyze_content_for_changes_ai(previous_content_summary, current_content_summary, key, reply) ==
  IF ~key
    THEN Return(ConfigurationErrorRecord) @@ [called |-> FALSE]
  ELSE IF previous_content_summary = current_content_summary
    THEN Return(NoSemanticChangeRecord) @@ [called |-> FALSE]
  ELSE IF ~Sliceable(previous_content_summary)
    THEN Raise("TypeError") @@ [called |-> FALSE]
  ELSE Return(ClassifierCall(reply)) @@ [called |-> TRUE]

\* ------------------------------------------------------------------------
\* State
\* ------------------------------------------------------------------------

VARIABLES
  OPENAI_API_KEY,    \* config.OPENAI_API_KEY is set
  MonitoredSources,  \* table: id -> row
  DetectedChanges,   \* table: the rows in insertion order
  UserEnquiries,     \* table: the rows in insertion order (id = position)
  agents,            \* the processes running a LawMonitorAgent
  mon,               \* per agent: where check_for_updates is, and its locals
  lastCheck,         \* per agent: what its latest check of a source did
  seen,              \* per source: its latest check, as the next one finds it
  faults,            \* failures and unusual replies injected so far
  qa,                \* where handle_user_questions is, and its locals
  probe              \* the latest call of a function on its own

vars ==
  <<OPENAI_API_KEY, MonitoredSources, DetectedChanges, UserEnquiries, agents,
    mon, lastCheck, seen, faults, qa, probe>>

\* The rows initialize_sources provisions: two sources, named as in config.py,
\* active, with no hash and no summary yet.
SourceIds == {1, 2}

SourceName(id) ==
  IF id = 1 THEN Str(<<"HMRC_Tax_Updates">>) ELSE Str(<<"FCA_Regulations">>)

SourceUrl(id) ==
  IF id = 1
    THEN Str(<<"https://www.gov.uk/government/organisations/hm-revenue-customs/announcements">>)
    ELSE Str(<<"https://www.fca.org.uk/news">>)

ProvisionedSources ==
  [id \in SourceIds |->
     [name |-> SourceName(id), url |-> SourceUrl(id), is_active |-> TRUE,
      last_content_hash |-> None, last_summary |-> None]]

NoCheck == [source_id |-> 0]

NotSeen == [cycle |-> 0, content_changes |-> 0]

NoProbe == [key |-> FALSE]

\* ------------------------------------------------------------------------
\* database.py: the monitoring tables
\* ------------------------------------------------------------------------

RECURSIVE ListingOf(_, _)
\* The rows of `ids` as dicts, in id order.
ListingOf(table, ids) ==
  IF ids = {} THEN <<>>
  ELSE LET id == CHOOSE x \in ids : \A y \in ids : x <= y
       IN <<[id |-> id, name |-> table[id].name, url |-> table[id].url,
             last_content_hash |-> table[id].last_content_hash,
             last_summary |-> table[id].last_summary]>>
          \o ListingOf(table, ids \ {id})

\* ok: the connection and the SELECT succeed; a psycopg2.Error gives [].
get_active_sources(table, ok) ==
  IF ok THEN ListingOf(table, {id \in DOMAIN table : table[id].is_active})
        ELSE <<>>

\* An UPDATE that sets the hash and leaves the summary as it was.
update_source_state_hash_only(table, source_id, new_hash, new_summary, ok) ==
  IF ok
    THEN [table EXCEPT ![source_id].last_content_hash = new_hash]
    ELSE table

\* The table after the call; a psycopg2.Error rolls the UPDATE back.
update_source_state(table, source_id, new_hash, new_summary, ok) ==
  IF ok
    THEN [table EXCEPT ![source_id].last_content_hash = new_hash,
                       ![source_id].last_summary = new_summary]
    ELSE table

\* An INSERT with the two hashes in each other's column.
add_detected_change_swapped(table, source_id, previous_hash, new_hash, change_summary, ai_analysis, full_text_snippet_from_change, url_of_change, ok) ==
  IF ok
    THEN Append(table,
                [source_id |-> source_id,
                 previous_content_hash |-> new_hash,
                 new_content_hash |-> previous_hash,
                 change_summary_from_agent |-> change_summary,
                 raw_ai_analysis_result |-> ai_analysis,
                 full_text_snippet_from_change |->
                   full_text_snippet_from_change,
                 url_of_change |-> url_of_change,
                 detected_at |-> Len(table) + 1])
    ELSE table

\* An INSERT that is sent twice.
add_detected_change_twice(table, source_id, previous_hash, new_hash, change_summary, ai_analysis, full_text_snippet_from_change, url_of_change, ok) ==
  IF ok
    THEN LET row == [source_id |-> source_id,
                     previous_content_hash |-> previous_hash,
                     new_content_hash |-> new_hash,
                     change_summary_from_agent |-> change_summary,
                     raw_ai_analysis_result |-> ai_analysis,
                     full_text_snippet_from_change |->
                       full_text_snippet_from_change,
                     url_of_change |-> url_of_change,
                     detected_at |-> Len(table) + 1]
         IN table \o <<row, row>>
    ELSE table

\* An INSERT whose row comes before the rows already there.
add_detected_change_first(table, source_id, previous_hash, new_hash, change_summary, ai_analysis, full_text_snippet_from_change, url_of_change, ok) ==
  IF ok
    THEN <<[source_id |-> source_id,
            previous_content_hash |-> previous_hash,
            new_content_hash |-> new_hash,
            change_summary_from_agent |-> change_summary,
            raw_ai_analysis_result |-> ai_analysis,
            full_text_snippet_from_change |-> full_text_snippet_from_change,
            url_of_change |-> url_of_change,
            detected_at |-> Len(table) + 1]>> \o table
    ELSE table

\* The table after the call; a psycopg2.Error rolls the INSERT back.
add_detected_change(table, source_id, previous_hash, new_hash, change_summary, ai_analysis, full_text_snippet_from_change, url_of_change, ok) ==
  IF ok
    THEN Append(table,
                [source_id |-> source_id,
                 previous_content_hash |-> previous_hash,
                 new_content_hash |-> new_hash,
                 change_summary_from_agent |-> change_summary,
                 raw_ai_analysis_result |->
                   IF Truthy(ai_analysis) THEN ai_analysis ELSE None,
                 full_text_snippet_from_change |-> full_text_snippet_from_change,
                 url_of_change |-> url_of_change,
                 detected_at |-> Len(table) + 1])
    ELSE table

\* ------------------------------------------------------------------------
\* LawMonitorAgent.check_for_updates
\* ------------------------------------------------------------------------

FirstCheckSummary == Str(<<"N/A (first check)">>)

\* Whether the print of the analysis result (main.py line 204) raises: the
\* result has no .get, or its main_summary cannot be sliced.
LogLineRaises(ai_analysis_result) ==
  \/ ~HasGet(ai_analysis_result)
  \/ ~Sliceable(DictGet(ai_analysis_result, "main_summary", Str(<<"N/A">>)))

\* A comparison that finds a change in every document.
ChangeDetectedAlways(current_hash, previous_hash) == TRUE

\* The test of main.py line 197.
ChangeDetected(current_hash, previous_hash) == current_hash # previous_hash

\* One pass of the loop body over source_data, a dict of the listing.
\* sources and changes are the two tables as the pass finds them; got, reply,
\* ins_ok and upd_ok are what the fetch, the model call, the INSERT and the
\* UPDATE do if the pass reaches them.  The result holds the tables as the
\* pass leaves them, the entries it appends to detected_changes_summary,
\* whether a write it made failed, and the number of failures and unusual
\* replies it met (used).
LoopBody(source_data, sources, changes, key, got, reply, ins_ok, upd_ok) ==
  LET source_id == source_data.id
      source_name == source_data.name
      url == source_data.url
      previous_hash == source_data.last_content_hash
      previous_summary == IF Truthy(source_data.last_summary)
                            THEN source_data.last_summary
                            ELSE FirstCheckSummary
      html_content == fetch_web_content(got)
      info == extract_relevant_info(html_content)
      current_summary == info.summary
      specific_url_of_change == info.link_url
      current_hash == get_content_hash(current_summary)
      ai == analyze_content_for_changes_ai(previous_summary, current_summary,
                                           key, reply)
      url_of_change == IF Truthy(specific_url_of_change)
                         THEN specific_url_of_change ELSE url
      odd_reply == IF ai.called /\ reply # ClassifierReplyOk THEN 1 ELSE 0
      nothing == [sources |-> sources, changes |-> changes, entries |-> <<>>,
                  called |-> FALSE, analysis |-> None, used |-> 0,
                  ins_failed |-> FALSE, upd_failed |-> FALSE,
                  previous_hash |-> previous_hash,
                  previous_summary |-> previous_summary,
                  current_summary |-> current_summary,
                  current_hash |-> current_hash]
  IN IF ~Truthy(html_content)
       THEN [outcome |-> "skipped", used |-> 1] @@ nothing
     ELSE IF ~ChangeDetected(current_hash, previous_hash)
       THEN [outcome |-> "unchanged"] @@ nothing
     ELSE IF ai.raised
       THEN [outcome |-> "raised", called |-> ai.called,
             used |-> odd_reply] @@ nothing
     ELSE IF ~Truthy(ai.value)
       THEN [outcome |-> "changed",
             sources |-> update_source_state(sources, source_id, current_hash,
                                             current_summary, upd_ok),
             called |-> ai.called, analysis |-> ai.value,
             upd_failed |-> ~upd_ok,
             used |-> odd_reply + (IF upd_ok THEN 0 ELSE 1)] @@ nothing
     ELSE IF LogLineRaises(ai.value)
       THEN [outcome |-> "raised", called |-> ai.called,
             analysis |-> ai.value, used |-> odd_reply] @@ nothing
     ELSE [outcome |-> "changed",
           sources |-> update_source_state(sources, source_id, current_hash,
                                           current_summary, upd_ok),
           changes |-> add_detected_change(
                         changes, source_id, previous_hash, current_hash,
                         DictGet(ai.value, "main_summary", current_summary),
                         ai.value, current_summary, url_of_change, ins_ok),
           entries |-> <<[source |-> source_name,
                          url |-> url_of_change,
                          analysis_summary |->
                            DictGet(ai.value, "main_summary", Str(<<"N/A">>))]>>,
           called |-> ai.called, analysis |-> ai.value,
           ins_failed |-> ~ins_ok, upd_failed |-> ~upd_ok,
           used |-> odd_reply + (IF ins_ok THEN 0 ELSE 1)
                    + (IF upd_ok THEN 0 ELSE 1)] @@ nothing

AgentReady ==
  [pc |-> "ready", cycle |-> 0, active_sources |-> <<>>, i |-> 0,
   detected_changes_summary |-> <<>>, rows_at_start |-> 0,
   not_inserted |-> <<>>]

\* check_for_updates is called (by __main__, in a fresh run of the program
\* after the last one returned or died) and reads the listing; with no
\* active source it returns [] at once.
StartCycle(p) ==
  /\ mon[p].pc \in {"ready", "returned", "crashed"}
  /\ mon[p].cycle < MaxCycles
  /\ \E ok \in BOOLEAN :
       LET active_sources == get_active_sources(MonitoredSources, ok)
       IN /\ ok \/ faults < MaxFaults
          /\ faults' = IF ok THEN faults ELSE faults + 1
          /\ mon' = [mon EXCEPT ![p] =
                       [pc |-> IF active_sources = <<>> THEN "returned" ELSE "loop",
                        cycle |-> @.cycle + 1,
                        active_sources |-> active_sources,
                        i |-> 1,
                        detected_changes_summary |-> <<>>,
                        rows_at_start |-> Len(DetectedChanges),
                        not_inserted |-> <<>>]]
  /\ UNCHANGED <<OPENAI_API_KEY, MonitoredSources, DetectedChanges,
                 UserEnquiries, agents, lastCheck, seen, qa, probe>>

\* What the environment may do in one pass over source_data: every fetch,
\* and, where the pass reaches them and a fault is still to be injected,
\* every reply of the model and both outcomes of the two writes.
PassChoices(source_data) ==
  LET spare == faults < MaxFaults
      all == {ClassifierReplyOk} \cup ClassifierRepliesOdd
  IN { c \in [got : FetchSuccesses
                     \cup (IF spare THEN FetchFailures \cup FetchEmpty ELSE {}),
              reply : IF spare THEN all ELSE {ClassifierReplyOk},
              ins_ok : IF spare THEN BOOLEAN ELSE {TRUE},
              upd_ok : IF spare THEN BOOLEAN ELSE {TRUE}] :
         \/ c.got \in FetchSuccesses
         \/ c.reply = ClassifierReplyOk /\ c.ins_ok /\ c.upd_ok }

\* One pass of the loop: the next source of the listing is checked.
CheckSource(p) ==
  /\ mon[p].pc = "loop"
  /\ mon[p].i <= Len(mon[p].active_sources)
  /\ \E c \in PassChoices(mon[p].active_sources[mon[p].i]) :
     \E did \in {LoopBody(mon[p].active_sources[mon[p].i], MonitoredSources,
                          DetectedChanges, OPENAI_API_KEY, c.got, c.reply,
                          c.ins_ok, c.upd_ok)} :
       LET id == mon[p].active_sources[mon[p].i].id
       IN /\ faults + did.used <= MaxFaults
          /\ faults' = faults + did.used
          /\ MonitoredSources' = did.sources
          /\ DetectedChanges' = did.changes
          /\ mon' = [mon EXCEPT ![p] =
                       IF did.outcome = "raised"
                         THEN [@ EXCEPT !.pc = "crashed"]
                         ELSE [@ EXCEPT !.i = @ + 1,
                                        !.detected_changes_summary =
                                          @ \o did.entries,
                                        !.not_inserted =
                                          IF did.ins_failed
                                            THEN Append(@, id) ELSE @]]
          /\ lastCheck' = [lastCheck EXCEPT ![p] =
                             [source_id |-> id,
                              index |-> mon[p].i,
                              fetch_ok |-> c.got \in FetchSuccesses,
                              empty_body |-> c.got \in FetchEmpty,
                              cycle |-> mon[p].cycle,
                              outcome |-> did.outcome,
                              previous_hash |-> did.previous_hash,
                              previous_summary |-> did.previous_summary,
                              current_hash |-> did.current_hash,
                              current_summary |-> did.current_summary,
                              key |-> OPENAI_API_KEY,
                              called |-> did.called,
                              analysis |-> did.analysis,
                              ins_failed |-> did.ins_failed,
                              upd_failed |-> did.upd_failed,
                              stored_before |-> MonitoredSources[id],
                              stored_after |-> did.sources[id],
                              appended |-> SubSeq(did.changes,
                                                  Len(DetectedChanges) + 1,
                                                  Len(did.changes)),
                              earlier |-> seen[id]]]
          /\ seen' = IF did.outcome = "skipped" THEN seen
                     ELSE [seen EXCEPT ![id] =
                             [cycle |-> mon[p].cycle,
                              key |-> OPENAI_API_KEY,
                              summary |-> did.current_summary,
                              stored |-> did.sources[id].last_content_hash,
                              content_changes |->
                                IF seen[id].cycle > 0
                                   /\ seen[id].summary = did.current_summary
                                  THEN seen[id].content_changes
                                  ELSE seen[id].content_changes + 1]]
  /\ UNCHANGED <<OPENAI_API_KEY, UserEnquiries, agents, qa, probe>>

\* The loop is over: check_for_updates returns detected_changes_summary.
ReturnChanges(p) ==
  /\ mon[p].pc = "loop"
  /\ mon[p].i > Len(mon[p].active_sources)
  /\ mon' = [mon EXCEPT ![p].pc = "returned"]
  /\ UNCHANGED <<OPENAI_API_KEY, MonitoredSources, DetectedChanges,
                 UserEnquiries, agents, lastCheck, seen, faults, qa, probe>>

\* Between two runs of the program the operator sets the missing key.
SetApiKey ==
  /\ \A p \in agents : mon[p].pc # "loop"
  /\ ~OPENAI_API_KEY
  /\ OPENAI_API_KEY' = TRUE
  /\ UNCHANGED <<MonitoredSources, DetectedChanges, UserEnquiries, agents,
                 mon, lastCheck, seen, faults, qa, probe>>

QaOff == [pc |-> "off"]

InitMonitor ==
  /\ OPENAI_API_KEY \in BOOLEAN
  /\ MonitoredSources = ProvisionedSources
  /\ DetectedChanges = <<>>
  /\ UserEnquiries = <<>>
  /\ agents = {1}
  /\ mon = [p \in agents |-> AgentReady]
  /\ lastCheck = [p \in agents |-> NoCheck]
  /\ seen = [id \in SourceIds |-> NotSeen]
  /\ faults = 0
  /\ qa = QaOff
  /\ probe = NoProbe

NextMonitor ==
  \/ \E p \in agents : StartCycle(p)
  \/ \E p \in agents : CheckSource(p)
  \/ \E p \in agents : ReturnChanges(p)
  \/ SetApiKey

SpecMonitor == InitMonitor /\ [][NextMonitor]_vars

\* Two processes of the program run a monitoring cycle side by side on the
\* same database, each the last of its cycles.
InitConcurrent ==
  /\ OPENAI_API_KEY \in BOOLEAN
  /\ MonitoredSources = ProvisionedSources
  /\ DetectedChanges = <<>>
  /\ UserEnquiries = <<>>
  /\ agents = {1, 2}
  /\ mon = [p \in agents |-> [AgentReady EXCEPT !.cycle = MaxCycles - 1]]
  /\ lastCheck = [p \in agents |-> NoCheck]
  /\ seen = [id \in SourceIds |-> NotSeen]
  /\ faults = 0
  /\ qa = QaOff
  /\ probe = NoProbe

SpecConcurrent == InitConcurrent /\ [][NextMonitor]_vars

\* ------------------------------------------------------------------------
\* Strings of the Q&A loop
\* ------------------------------------------------------------------------

IsSpace(c) == c \in {" ", "\t", "\n"}

\* chars.strip(), on characters.
Strip(chars) ==
  LET inked == {i \in 1..Len(chars) : ~IsSpace(chars[i])}
  IN IF inked = {} THEN <<>>
     ELSE SubSeq(chars, CHOOSE i \in inked : \A j \in inked : i <= j,
                        CHOOSE i \in inked : \A j \in inked : j <= i)

\* chars.split(), on characters: the maximal runs without whitespace.
Split(chars) ==
  LET starts == {i \in 1..Len(chars) :
                   ~IsSpace(chars[i]) /\ (i = 1 \/ IsSpace(chars[i - 1]))}
      nth(k) == CHOOSE i \in starts : Cardinality({j \in starts : j < i}) = k - 1
      endOf(i) == CHOOSE j \in i..Len(chars) :
                    /\ \A m \in i..j : ~IsSpace(chars[m])
                    /\ j = Len(chars) \/ IsSpace(chars[j + 1])
  IN [k \in 1..Cardinality(starts) |-> SubSeq(chars, nth(k), endOf(nth(k)))]

\* The number of places where needle starts in hay, on characters.
Occurrences(needle, hay) ==
  Cardinality({i \in 1..(Len(hay) - Len(needle) + 1) :
                 /\ hay[i] = needle[1]
                 /\ SubSeq(hay, i, i + Len(needle) - 1) = needle})

\* f"{x}" of a value.
Fmt(x) == CASE x.t = "str" -> x.v [] x.t = "none" -> <<"None">>

RECURSIVE Join(_, _)
\* sep.join(items), items being strings.
Join(sep, items) ==
  IF items = <<>> THEN <<>>
  ELSE IF Len(items) = 1 THEN Head(items).v
  ELSE Head(items).v \o sep \o Join(sep, Tail(items))

\* ------------------------------------------------------------------------
\* database.py: the enquiries and the knowledge search
\* ------------------------------------------------------------------------

\* An INSERT that returns the id and is never committed.
add_user_enquiry_uncommitted(table, question_text, processing_status, ok) ==
  IF ok
    THEN [table |-> table, entry_id |-> PyInt(Len(table) + 1)]
    ELSE [table |-> table, entry_id |-> None]

\* An INSERT that gives an id also when it fails.
add_user_enquiry_id_on_failure(table, question_text, processing_status, ok) ==
  IF ok
    THEN [table |-> Append(table,
                           [question_text |-> question_text,
                            retrieved_context |-> None,
                            generated_answer |-> None,
                            processing_status |-> processing_status]),
          entry_id |-> PyInt(Len(table) + 1)]
    ELSE [table |-> table, entry_id |-> PyInt(Len(table) + 1)]

\* The table and the id returned; a psycopg2.Error rolls the INSERT back and
\* gives None.
add_user_enquiry(table, question_text, processing_status, ok) ==
  IF ok
    THEN [table |-> Append(table,
                           [question_text |-> question_text,
                            retrieved_context |-> None,
                            generated_answer |-> None,
                            processing_status |-> processing_status]),
          entry_id |-> PyInt(Len(table) + 1)]
    ELSE [table |-> table, entry_id |-> None]

\* The table after the call; a psycopg2.Error rolls the UPDATE back.
update_user_enquiry_answer(table, enquiry_id, retrieved_context, generated_answer, processing_status, ok) ==
  IF ok /\ enquiry_id.v \in DOMAIN table
    THEN [table EXCEPT ![enquiry_id.v].retrieved_context = retrieved_context,
                       ![enquiry_id.v].generated_answer = generated_answer,
                       ![enquiry_id.v].processing_status = processing_status]
    ELSE table

\* LIMIT of the search query.
SearchLimit == 10

\* raw_ai_analysis_result->>key
JsonText(raw, key) ==
  IF raw = None \/ raw.t # "dict" THEN None
  ELSE IF key \notin DOMAIN raw.v THEN None
  ELSE CASE raw.v[key].t = "str" -> raw.v[key]
         [] raw.v[key].t = "none" -> None

\* column ILIKE '%kw%', kw holding no wildcard; NULL matches nothing.
ILike(column, kw) ==
  /\ column # None
  /\ IsSubstring(kw, Lower(column.v))

\* The rows a keyword matches, newest first, as dicts; [] without keywords
\* and on a psycopg2.Error.
search_knowledge_base(keywords, table, ok) ==
  IF keywords = <<>> THEN <<>>
  ELSE IF ~ok THEN <<>>
  ELSE LET hits == {i \in 1..Len(table) :
                      \E k \in 1..Len(keywords) :
                        \/ ILike(table[i].change_summary_from_agent, keywords[k])
                        \/ ILike(JsonText(table[i].raw_ai_analysis_result,
                                          "main_summary"), keywords[k])
                        \/ ILike(JsonText(table[i].raw_ai_analysis_result,
                                          "change_type"), keywords[k])}
           nth(k) == CHOOSE i \in hits :
                       Cardinality({j \in hits :
                                      table[j].detected_at > table[i].detected_at})
                         = k - 1
           n == IF Cardinality(hits) < SearchLimit
                  THEN Cardinality(hits) ELSE SearchLimit
       IN [k \in 1..n |->
             [id |-> nth(k),
              source_id |-> table[nth(k)].source_id,
              detected_at |-> table[nth(k)].detected_at,
              change_summary_from_agent |->
                table[nth(k)].change_summary_from_agent,
              raw_ai_analysis_result |-> table[nth(k)].raw_ai_analysis_result,
              url_of_change |-> table[nth(k)].url_of_change]]

\* ------------------------------------------------------------------------
\* synthesize_answer_with_ai
\* ------------------------------------------------------------------------

Disclaimer ==
  "Disclaimer: This information is for guidance only and not professional financial advice. Please consult with a qualified financial advisor for advice tailored to your specific situation."

ConfigurationIssueAnswer ==
  "I am unable to process your request at this time due to a configuration issue. Please contact support."

ErrorApology ==
  "I apologize, but I encountered an error while trying to generate an answer. Please try again later."

NoInfoPhrase == "I could not find specific information"

\* What the model answers to the synthesis prompt: text without the
\* disclaimer, text that ends with it, and a statement that nothing is known.
SynthRepliesOk ==
  { Content(Str(<<"The basic rate of income tax is 20%.">>)),
    Content(Str(<<"The basic rate of income tax is 20%.", "\n\n", Disclaimer>>)),
    Content(Str(<<NoInfoPhrase, " on that topic.", "\n\n", Disclaimer>>)) }

\* A failed call, and a reply without content.
SynthRepliesOdd == { Raises("Connection error."), Content(None) }

\* A synthesis that appends the disclaimer to every answer of the model.
synthesize_answer_with_ai_always_appending(user_question, context_from_db, key, reply) ==
  IF ~key
    THEN Return(Str(<<ConfigurationIssueAnswer>>)) @@ [called |-> FALSE]
  ELSE IF reply.kind = "raise"
    THEN Raise("UnboundLocalError") @@ [called |-> TRUE]
  ELSE LET ai_answer == reply.content
       IN IF ai_answer.t # "str"
            THEN Return(Str(<<ErrorApology, "\n\n", Disclaimer>>))
                   @@ [called |-> TRUE]
            ELSE Return(Str(ai_answer.v \o <<"\n\n", Disclaimer>>))
                   @@ [called |-> TRUE]

\* key: whether config.OPENAI_API_KEY is set; reply: what the model call does
\* if it is made.  `disclaimer` is assigned after the call: when the call
\* raises, the handler's f-string reads an unbound local.
synthesize_answer_with_ai(user_question, context_from_db, key, reply) ==
  IF ~key
    THEN Return(Str(<<ConfigurationIssueAnswer>>)) @@ [called |-> FALSE]
  ELSE IF reply.kind = "raise"
    THEN Raise("UnboundLocalError") @@ [called |-> TRUE]
  ELSE LET ai_answer == reply.content
       IN IF ai_answer.t # "str"
            THEN Return(Str(<<ErrorApology, "\n\n", Disclaimer>>))
                   @@ [called |-> TRUE]
          ELSE IF ~In(<<Disclaimer>>, ai_answer.v)
            THEN Return(Str(ai_answer.v \o <<"\n\n", Disclaimer>>))
                   @@ [called |-> TRUE]
          ELSE Return(ai_answer) @@ [called |-> TRUE]

\* ------------------------------------------------------------------------
\* handle_user_questions
\* ------------------------------------------------------------------------

\* The characters of retrieved_context stored with an enquiry.
ContextLen == 2000

\* The search results the context is made of.
ContextResults == 3

\* keywords of main.py line 317, each a sequence of characters.
Keywords(user_question) ==
  LET words == SelectSeq(Split(Flatten(user_question.v)),
                         LAMBDA kw : Len(kw) > 2)
  IN [k \in 1..Len(words) |-> Lower(words[k])]

\* The context part of one search result: a sequence of at most one string,
\* or an exception of the join.
ContextPart(result) ==
  IF Truthy(result.raw_ai_analysis_result)
    THEN LET raw == result.raw_ai_analysis_result
             ai_summary == DictGet(raw, "main_summary", Str(<<>>))
             key_details == DictGet(raw, "key_details", List(<<>>))
         IN IF key_details.t # "list"
                \/ \E i \in 1..Len(key_details.v) : key_details.v[i].t # "str"
              THEN Raise("TypeError")
              ELSE Return(<<Str(<<"Found information: ">> \o Fmt(ai_summary)
                                \o <<" Key details: ">>
                                \o Join(<<", ">>, key_details.v))>>)
  ELSE IF Truthy(result.change_summary_from_agent)
    THEN Return(<<Str(<<"Found information: ">>
                      \o result.change_summary_from_agent.v)>>)
  ELSE Return(<<>>)

RECURSIVE ContextParts(_, _)
\* context_parts after the first n results, given no part raises.
ContextParts(search_results, n) ==
  IF n = 0 THEN <<>>
  ELSE ContextParts(search_results, n - 1)
       \o ContextPart(search_results[n]).value

\* retrieved_context_summary of main.py lines 322-339.
RetrievedContext(search_results) ==
  IF search_results = <<>>
    THEN Return(Str(<<"No specific information found in the local knowledge base for the given keywords.">>))
  ELSE LET n == IF Len(search_results) < ContextResults
                  THEN Len(search_results) ELSE ContextResults
       IN IF \E i \in 1..n : ContextPart(search_results[i]).raised
            THEN Raise("TypeError")
            ELSE LET joined == Join(<<" ">>, ContextParts(search_results, n))
                 IN IF Strip(Flatten(joined)) = <<>>
                      THEN Return(Str(<<"Found some database entries but could not form a concise text summary from them.">>))
                      ELSE Return(Str(joined))

\* The context the loop builds when the search gives no result.
MissContext ==
  RetrievedContext(<<>>).value

\* processing_status of main.py line 345.
StatusOf(generated_answer_text) ==
  IF /\ ~In(<<NoInfoPhrase>>, generated_answer_text.v)
     /\ ~In(<<"encountered an error">>, generated_answer_text.v)
    THEN "answered" ELSE "no_info_found"

\* What the user types at the prompt.
InputLines ==
  { Str(<<"Quit">>), Str(<<"  ">>),
    Str(<<"What is the income tax rate?">>),
    Str(<<"VAT on books">>),
    Str(<<"Is it so">>) }

NoSynth == [called |-> FALSE, raised |-> FALSE, value |-> None]

\* The lines the loop prints for the user (main.py lines 314, 348 and 351).
CouldNotLog ==
  Str(<<"Could not log your question to the database. Please try again.">>)

AdvisorSays(generated_answer_text) ==
  Str(<<"\nFinanceAdvisor says:\n">> \o generated_answer_text.v \o <<"\n">>)

LoopError(exc) == Str(<<"An error occurred in the Q&A loop: ", exc>>)

QaPrompt ==
  [pc |-> "prompt", user_question |-> None, enquiry_id |-> None,
   retrieved_context_summary |-> None, generated_answer_text |-> None,
   asked |-> 0, not_logged |-> 0, updates |-> <<>>, refused |-> {},
   synth |-> NoSynth, printed |-> None, search_failed |-> FALSE]

\* The loop is back at input().
AtPrompt(q) ==
  [q EXCEPT !.pc = "prompt", !.user_question = None, !.enquiry_id = None,
            !.retrieved_context_summary = None,
            !.generated_answer_text = None]

\* input(), the two tests of the line, and add_user_enquiry.
ReadQuestion ==
  /\ qa.pc = "prompt"
  /\ \E user_question \in InputLines, ok \in BOOLEAN :
       IF Lower(user_question.v) = Chars("quit")
         THEN /\ ok
              /\ qa' = [qa EXCEPT !.pc = "done"]
              /\ UNCHANGED <<UserEnquiries, faults>>
       ELSE IF Strip(Flatten(user_question.v)) = <<>>
         THEN /\ ok
              /\ UNCHANGED <<UserEnquiries, faults, qa>>
       ELSE LET added == add_user_enquiry(UserEnquiries, user_question,
                                          "processing_search", ok)
                enquiry_id == added.entry_id
            IN /\ qa.asked < MaxQuestions
               /\ ok \/ faults < MaxQaFaults
               /\ faults' = IF ok THEN faults ELSE faults + 1
               /\ UserEnquiries' = added.table
               /\ qa' = IF ~Truthy(enquiry_id)
                          THEN [qa EXCEPT !.asked = @ + 1, !.not_logged = @ + 1,
                                          !.printed = CouldNotLog,
                                          !.search_failed = FALSE]
                          ELSE [qa EXCEPT !.pc = "search",
                                          !.user_question = user_question,
                                          !.enquiry_id = enquiry_id,
                                          !.asked = @ + 1,
                                          !.updates = Append(@, 0),
                                          !.printed = None,
                                          !.search_failed = FALSE]
  /\ UNCHANGED <<OPENAI_API_KEY, MonitoredSources, DetectedChanges, agents,
                 mon, lastCheck, seen, probe>>

\* The keywords, search_knowledge_base and the context made of its results.
SearchKnowledgeBase ==
  /\ qa.pc = "search"
  /\ \E ok \in BOOLEAN :
       LET keywords == Keywords(qa.user_question)
           search_results == search_knowledge_base(keywords, DetectedChanges, ok)
           context == RetrievedContext(search_results)
       IN /\ ok \/ (keywords # <<>> /\ faults < MaxQaFaults)
          /\ faults' = IF ok THEN faults ELSE faults + 1
          /\ qa' = IF context.raised
                     THEN [AtPrompt(qa) EXCEPT !.printed = LoopError(context.exc),
                                               !.search_failed = ~ok]
                     ELSE [qa EXCEPT !.pc = "synthesize",
                                     !.retrieved_context_summary = context.value,
                                     !.search_failed = ~ok]
  /\ UNCHANGED <<OPENAI_API_KEY, MonitoredSources, DetectedChanges,
                 UserEnquiries, agents, mon, lastCheck, seen, probe>>

\* synthesize_answer_with_ai is called; an exception of it ends the pass in
\* the loop's handler.
SynthesizeAnswer ==
  /\ qa.pc = "synthesize"
  /\ \E reply \in SynthRepliesOk
                  \cup (IF faults < MaxQaFaults THEN SynthRepliesOdd ELSE {}) :
     \E got \in {synthesize_answer_with_ai(qa.user_question,
                                           qa.retrieved_context_summary,
                                           OPENAI_API_KEY, reply)} :
       /\ faults' = IF got.called /\ reply \in SynthRepliesOdd
                      THEN faults + 1 ELSE faults
       /\ qa' = IF got.raised
                  THEN [AtPrompt(qa) EXCEPT
                          !.printed = LoopError(got.exc),
                          !.synth = [called |-> got.called, raised |-> TRUE,
                                     value |-> None, key |-> OPENAI_API_KEY,
                                     reply |-> reply]]
                  ELSE [qa EXCEPT
                          !.pc = "update",
                          !.generated_answer_text = got.value,
                          !.synth = [called |-> got.called, raised |-> FALSE,
                                     value |-> got.value,
                                     key |-> OPENAI_API_KEY,
                                     reply |-> IF got.called THEN reply
                                                             ELSE None]]
  /\ UNCHANGED <<OPENAI_API_KEY, MonitoredSources, DetectedChanges,
                 UserEnquiries, agents, mon, lastCheck, seen, probe>>

\* An update whose storage failure reaches the loop's handler, so that the
\* answer is not printed.
UpdateEnquiryRaising ==
  /\ qa.pc = "update"
  /\ \E ok \in BOOLEAN :
       /\ ok \/ faults < MaxQaFaults
       /\ faults' = IF ok THEN faults ELSE faults + 1
       /\ UserEnquiries' =
            update_user_enquiry_answer(
              UserEnquiries, qa.enquiry_id,
              Str(Slice(qa.retrieved_context_summary.v, ContextLen)),
              qa.generated_answer_text, StatusOf(qa.generated_answer_text), ok)
       /\ qa' = IF ok
                  THEN [AtPrompt(qa) EXCEPT
                          !.updates[qa.enquiry_id.v] = @ + 1,
                          !.printed = AdvisorSays(qa.generated_answer_text)]
                  ELSE [AtPrompt(qa) EXCEPT
                          !.refused = @ \cup {qa.enquiry_id.v},
                          !.printed = LoopError("psycopg2.Error")]
  /\ UNCHANGED <<OPENAI_API_KEY, MonitoredSources, DetectedChanges, agents,
                 mon, lastCheck, seen, probe>>

\* The status, update_user_enquiry_answer and the print of the answer.
UpdateEnquiry ==
  /\ qa.pc = "update"
  /\ \E ok \in BOOLEAN :
       /\ ok \/ faults < MaxQaFaults
       /\ faults' = IF ok THEN faults ELSE faults + 1
       /\ UserEnquiries' =
            update_user_enquiry_answer(
              UserEnquiries, qa.enquiry_id,
              Str(Slice(qa.retrieved_context_summary.v, ContextLen)),
              qa.generated_answer_text, StatusOf(qa.generated_answer_text), ok)
       /\ qa' = IF ok
                  THEN [AtPrompt(qa) EXCEPT
                          !.updates[qa.enquiry_id.v] = @ + 1,
                          !.printed = AdvisorSays(qa.generated_answer_text)]
                  ELSE [AtPrompt(qa) EXCEPT
                          !.refused = @ \cup {qa.enquiry_id.v},
                          !.printed = AdvisorSays(qa.generated_answer_text)]
  /\ UNCHANGED <<OPENAI_API_KEY, MonitoredSources, DetectedChanges, agents,
                 mon, lastCheck, seen, probe>>

FetchOf(page) ==
  [kind |-> "response", content_type |-> <<"text/html; charset=UTF-8">>,
   text |-> page]

\* What the model answered in the one call of check_for_updates that __main__
\* makes before the Q&A loop: as asked, or a document without main_summary.
EarlierReplies == {ClassifierReplyOk, Content(Str(<<JsonNoSummary>>))}

\* The Q&A loop finds the monitoring tables untouched (the listing could not
\* be read), or as the cycle before it left them: source 1 showed PageB and
\* source 2 PageA.
InitQA ==
  /\ OPENAI_API_KEY \in BOOLEAN
  /\ \/ /\ MonitoredSources = ProvisionedSources
        /\ DetectedChanges = <<>>
     \/ \E reply \in EarlierReplies :
        \E active_sources \in {get_active_sources(ProvisionedSources, TRUE)} :
        \E first \in {LoopBody(active_sources[1], ProvisionedSources, <<>>,
                               OPENAI_API_KEY, FetchOf(PageB), reply,
                               TRUE, TRUE)} :
        \E second \in {LoopBody(active_sources[2], first.sources,
                                first.changes, OPENAI_API_KEY, FetchOf(PageA),
                                reply, TRUE, TRUE)} :
          /\ MonitoredSources = second.sources
          /\ DetectedChanges = second.changes
  /\ UserEnquiries = <<>>
  /\ agents = {}
  /\ mon = [p \in agents |-> AgentReady]
  /\ lastCheck = [p \in agents |-> NoCheck]
  /\ seen = [id \in SourceIds |-> NotSeen]
  /\ faults = 0
  /\ qa = QaPrompt
  /\ probe = NoProbe

NextQA ==
  \/ ReadQuestion
  \/ SearchKnowledgeBase
  \/ SynthesizeAnswer
  \/ UpdateEnquiry

SpecQA == InitQA /\ [][NextQA]_vars

\* ------------------------------------------------------------------------
\* The classifier called on its own
\* ------------------------------------------------------------------------

\* A page without a heading and without a paragraph.
PageBare == Html(None, None, None, 0)

\* The summaries check_for_updates passes to the classifier.
PreviousSummaries ==
  {FirstCheckSummary}
    \cup {extract_relevant_info(page).summary : page \in Pages \cup {PageBare}}

CurrentSummaries ==
  {extract_relevant_info(page).summary : page \in Pages \cup {PageBare}}

CallClassifier ==
  /\ \E previous_content_summary \in PreviousSummaries,
        current_content_summary \in CurrentSummaries,
        reply \in {ClassifierReplyOk} \cup ClassifierRepliesOdd :
       probe' = [previous_content_summary |-> previous_content_summary,
                 current_content_summary |-> current_content_summary,
                 key |-> OPENAI_API_KEY,
                 reply |-> reply,
                 result |-> analyze_content_for_changes_ai(
                              previous_content_summary,
                              current_content_summary, OPENAI_API_KEY, reply)]
  /\ UNCHANGED <<OPENAI_API_KEY, MonitoredSources, DetectedChanges,
                 UserEnquiries, agents, mon, lastCheck, seen, faults, qa>>

InitClassifier ==
  /\ OPENAI_API_KEY \in BOOLEAN
  /\ MonitoredSources = ProvisionedSources
  /\ DetectedChanges = <<>>
  /\ UserEnquiries = <<>>
  /\ agents = {}
  /\ mon = [p \in agents |-> AgentReady]
  /\ lastCheck = [p \in agents |-> NoCheck]
  /\ seen = [id \in SourceIds |-> NotSeen]
  /\ faults = 0
  /\ qa = QaOff
  /\ probe = NoProbe

NextClassifier == CallClassifier

SpecClassifier == InitClassifier /\ [][NextClassifier]_vars

\* ------------------------------------------------------------------------
\* The disclaimer step of synthesize_answer_with_ai, on its own
\* ------------------------------------------------------------------------

\* The two halves of the disclaimer.
DisclaimerHead ==
  "Disclaimer: This information is for guidance only and not professional financial advice."

DisclaimerTail ==
  " Please consult with a qualified financial advisor for advice tailored to your specific situation."

\* What the model's output is made of.
AnswerPieces ==
  {"The basic rate of income tax is 20%.", "\n\n", Disclaimer,
   DisclaimerHead, DisclaimerTail}

\* The outputs of the model: the texts of at most MaxPieces pieces.
ModelOutputs == UNION {[1..n -> AnswerPieces] : n \in 0..MaxPieces}

\* The model answers ai_answer and the function returns `once`; the model
\* answers that text again and the function returns `twice`.
SynthesizeTwice ==
  /\ \E ai_answer \in ModelOutputs :
     \E once \in {synthesize_answer_with_ai(
                     Str(<<"What is the income tax rate?">>), MissContext,
                     TRUE, Content(Str(ai_answer)))} :
     \E twice \in {synthesize_answer_with_ai(
                      Str(<<"What is the income tax rate?">>), MissContext,
                      TRUE, Content(once.value))} :
       probe' = [key |-> TRUE, ai_answer |-> Str(ai_answer),
                 once |-> once.value, twice |-> twice.value]
  /\ UNCHANGED <<OPENAI_API_KEY, MonitoredSources, DetectedChanges,
                 UserEnquiries, agents, mon, lastCheck, seen, faults, qa>>

InitDisclaimer ==
  /\ OPENAI_API_KEY = TRUE
  /\ MonitoredSources = ProvisionedSources
  /\ DetectedChanges = <<>>
  /\ UserEnquiries = <<>>
  /\ agents = {}
  /\ mon = [p \in agents |-> AgentReady]
  /\ lastCheck = [p \in agents |-> NoCheck]
  /\ seen = [id \in SourceIds |-> NotSeen]
  /\ faults = 0
  /\ qa = QaOff
  /\ probe = NoProbe

NextDisclaimer == SynthesizeTwice

SpecDisclaimer == InitDisclaimer /\ [][NextDisclaimer]_vars

\* ------------------------------------------------------------------------
\* The keywords of a question, on their own
\* ------------------------------------------------------------------------

\* The words questions are made of.
QuestionWords == {"tax?", "is?", "VAT", "Rates,", "on", "a", "books."}

RECURSIVE Spaced(_)
\* The words with one space between them.
Spaced(words) ==
  IF Len(words) <= 1 THEN words
  ELSE <<Head(words), " ">> \o Spaced(Tail(words))

\* What the user types: questions of at most MaxWords words.
Questions ==
  {Str(Spaced(words)) : words \in UNION {[1..n -> QuestionWords] : n \in 1..MaxWords}}

\* The loop derives the keywords of a question.
DeriveKeywords ==
  /\ \E user_question \in Questions :
       probe' = [key |-> OPENAI_API_KEY, user_question |-> user_question,
                 keywords |-> Keywords(user_question)]
  /\ UNCHANGED <<OPENAI_API_KEY, MonitoredSources, DetectedChanges,
                 UserEnquiries, agents, mon, lastCheck, seen, faults, qa>>

InitKeywords ==
  /\ OPENAI_API_KEY = TRUE
  /\ MonitoredSources = ProvisionedSources
  /\ DetectedChanges = <<>>
  /\ UserEnquiries = <<>>
  /\ agents = {}
  /\ mon = [p \in agents |-> AgentReady]
  /\ lastCheck = [p \in agents |-> NoCheck]
  /\ seen = [id \in SourceIds |-> NotSeen]
  /\ faults = 0
  /\ qa = QaOff
  /\ probe = NoProbe

NextKeywords == DeriveKeywords

SpecKeywords == InitKeywords /\ [][NextKeywords]_vars

\* ------------------------------------------------------------------------
\* Properties of the monitoring cycle (SpecMonitor)
\* ------------------------------------------------------------------------

\* The checks made so far that got a document to compare.
Compared(p) ==
  /\ lastCheck[p] # NoCheck
  /\ lastCheck[p].outcome # "skipped"

\* The latest check of agent p follows, one cycle later, a check of the same
\* source that extracted the same summary.
SameContentAgain(p) ==
  /\ Compared(p)
  /\ lastCheck[p].earlier # NotSeen
  /\ lastCheck[p].earlier.cycle = lastCheck[p].cycle - 1
  /\ lastCheck[p].earlier.summary = lastCheck[p].current_summary

\* The second run neither appended a row nor changed the stored hash.
SecondRunDidNothing(p) ==
  /\ lastCheck[p].appended = <<>>
  /\ lastCheck[p].stored_after.last_content_hash = lastCheck[p].earlier.stored

\* C1 as stated: two runs over the same content of a source; the second run
\* appends no DetectedChange row for it and leaves its stored
\* last_content_hash as the first run left it, whatever the first run's
\* classifier call and storage writes did.
C1_NoOpStabilityAnyFirstRun ==
  \A p \in agents : SameContentAgain(p) => SecondRunDidNothing(p)

\* C1, amended: two runs over the same content of a source, the first of
\* which left the stored last_content_hash equal to the fingerprint of that
\* content; the second run appends no DetectedChange row for the source and
\* leaves its stored last_content_hash unchanged.
C1_NoOpStability ==
  \A p \in agents :
    ( /\ SameContentAgain(p)
      /\ lastCheck[p].earlier.stored
           = Md5(lastCheck[p].current_summary.v) )
    => /\ SecondRunDidNothing(p)
       /\ lastCheck[p].outcome = "unchanged"
       /\ ~lastCheck[p].called

\* A second run over unchanged, stored content has happened.
C1_Witness ==
  \E p \in agents :
    /\ SameContentAgain(p)
    /\ lastCheck[p].earlier.stored = Md5(lastCheck[p].current_summary.v)
    /\ lastCheck[p].earlier.stored = lastCheck[p].stored_after.last_content_hash
    /\ mon[p].cycle = 2

\* The latest check of agent p found the state stored by a check of some
\* content A and fetched content B with another summary.
FromAToB(p) ==
  /\ Compared(p)
  /\ lastCheck[p].stored_before.last_summary # None
  /\ lastCheck[p].stored_before.last_content_hash
       = Md5(lastCheck[p].stored_before.last_summary.v)
  /\ lastCheck[p].current_summary # lastCheck[p].stored_before.last_summary

\* The one row a check of B after A is to append.
RowFromAToB(p, row) ==
  /\ row.source_id = lastCheck[p].source_id
  /\ row.previous_content_hash = Md5(lastCheck[p].stored_before.last_summary.v)
  /\ row.new_content_hash = Md5(lastCheck[p].current_summary.v)

\* The stored state is that of content B.
StoredIsB(p) ==
  /\ lastCheck[p].stored_after.last_summary = lastCheck[p].current_summary
  /\ lastCheck[p].stored_after.last_content_hash
       = Md5(lastCheck[p].current_summary.v)

\* C2 as stated: a check that fetches B after the state of A was stored
\* appends exactly one DetectedChange row (previous hash of A's summary, new
\* hash of B's summary) and leaves B's summary and hash stored.
C2_ChangeDetectionAlways ==
  \A p \in agents :
    FromAToB(p) =>
      /\ Len(lastCheck[p].appended) = 1
      /\ RowFromAToB(p, lastCheck[p].appended[1])
      /\ StoredIsB(p)

\* C2, amended: a check that fetches B after the state of A was stored
\* appends one DetectedChange row (previous hash of A's summary, new hash of
\* B's summary) exactly when the classifier returns a non-empty result whose
\* summary can be logged and the INSERT succeeds, and no row otherwise; it
\* leaves B's summary and hash stored exactly when it gets past the log line
\* and the UPDATE succeeds, and the state of A otherwise.
C2_ChangeDetection ==
  \A p \in agents :
    FromAToB(p) =>
      LET c == lastCheck[p]
          logged == c.outcome = "changed" /\ Truthy(c.analysis)
      IN /\ Len(c.appended) <= 1
         /\ Len(c.appended) = 1 <=> (logged /\ ~c.ins_failed)
         /\ Len(c.appended) = 1 => RowFromAToB(p, c.appended[1])
         /\ StoredIsB(p) <=> (c.outcome = "changed" /\ ~c.upd_failed)
         /\ ~StoredIsB(p) => c.stored_after = c.stored_before
         /\ c.outcome = "changed"
              <=> (~Truthy(c.analysis) \/ ~LogLineRaises(c.analysis))
         /\ c.outcome \in {"changed", "raised"}

\* A check of B after A has appended its row and stored B.
C2_Witness ==
  \E p \in agents :
    /\ FromAToB(p)
    /\ Len(lastCheck[p].appended) = 1
    /\ RowFromAToB(p, lastCheck[p].appended[1])
    /\ StoredIsB(p)

\* The rows the current cycle of agent p has appended for source id.
RowsOfCycle(p, id) ==
  { k \in (mon[p].rows_at_start + 1) .. Len(DetectedChanges) :
      DetectedChanges[k].source_id = id }

\* C3 as stated: in every check of a source a DetectedChange row is appended
\* if and only if the new fingerprint differs from the stored one, and then
\* exactly one row is appended for the source in the cycle.
C3_RowIffFingerprintDiffers ==
  \A p \in agents :
    Compared(p) =>
      LET c == lastCheck[p]
          differs == c.current_hash # c.stored_before.last_content_hash
      IN /\ Len(c.appended) >= 1 <=> differs
         /\ differs => Cardinality(RowsOfCycle(p, c.source_id)) = 1

\* C3, amended: a check appends a DetectedChange row only if the new
\* fingerprint differs from the stored one, and a cycle appends at most one
\* row for a source; a differing fingerprint gives no row when the
\* classifier's result is empty or cannot be logged, or the INSERT fails.
C3_RowOnlyIfFingerprintDiffers ==
  \A p \in agents :
    /\ \A id \in SourceIds : Cardinality(RowsOfCycle(p, id)) <= 1
    /\ lastCheck[p] # NoCheck =>
         LET c == lastCheck[p]
             differs == c.current_hash # c.stored_before.last_content_hash
         IN /\ Len(c.appended) <= 1
            /\ c.outcome = "skipped" => c.appended = <<>>
            /\ Len(c.appended) = 1 =>
                 /\ c.outcome = "changed"
                 /\ differs
                 /\ c.appended[1].source_id = c.source_id
            /\ (Compared(p) /\ differs /\ c.appended = <<>>) =>
                 \/ ~Truthy(c.analysis)
                 \/ LogLineRaises(c.analysis)
                 \/ c.ins_failed
                 \/ c.outcome = "raised"

\* A cycle has appended one row for each of its two sources.
C3_Witness ==
  \E p \in agents :
    /\ \A id \in SourceIds : Cardinality(RowsOfCycle(p, id)) = 1
    /\ Compared(p)
    /\ Len(lastCheck[p].appended) = 1
    /\ lastCheck[p].current_hash # lastCheck[p].stored_before.last_content_hash

\* C4 as stated, for the monitoring cycle: check_for_updates never ends in
\* an unhandled exception, and when it returns it has visited every source
\* of its listing.
C4_NoUnhandledFault ==
  \A p \in agents :
    /\ mon[p].pc # "crashed"
    /\ mon[p].pc = "returned" => mon[p].i = Len(mon[p].active_sources) + 1

\* ------------------------------------------------------------------------
\* Properties of the Q&A loop (SpecQA)
\* ------------------------------------------------------------------------

\* synthesize_answer_with_ai has been called.
Synthesized == qa.synth # NoSynth

\* C5 as stated: on every path synthesize_answer_with_ai returns an answer
\* string, and the mandatory disclaimer occurs in it exactly once.
C5_DisclaimerExactlyOnce ==
  Synthesized =>
    /\ ~qa.synth.raised
    /\ qa.synth.value.t = "str"
    /\ Occurrences(Chars(Disclaimer), Flatten(qa.synth.value.v)) = 1

\* C6 as stated: when the model call fails, synthesize_answer_with_ai does
\* not raise; it returns a fallback answer that ends with the disclaimer.
C6_FallbackOnModelFailure ==
  ( /\ Synthesized
    /\ qa.synth.called
    /\ qa.synth.reply.kind = "raise" )
  => /\ ~qa.synth.raised
     /\ qa.synth.value.t = "str"
     /\ In(<<Disclaimer>>, qa.synth.value.v)

\* C7 as stated, for the rows whose UPDATE the storage did not refuse: when
\* the loop is back at the prompt, every Enquiry row has left the pending
\* status by exactly one update, whatever the search and the model call did.
C7_EveryEnquiryResolved ==
  qa.pc \in {"prompt", "done"} =>
    \A id \in DOMAIN UserEnquiries :
      id \notin qa.refused =>
        /\ UserEnquiries[id].processing_status \in {"answered", "no_info_found"}
        /\ qa.updates[id] = 1

\* C8 as stated: after k questions the Enquiry rows have grown by exactly k.
C8_OneRowPerQuestion == Len(UserEnquiries) = qa.asked

\* C8, amended: a question produces one Enquiry row when its INSERT succeeds
\* and none when it fails; after k questions, f of which were not logged,
\* the rows have grown by exactly k - f, and the newest row is the pending
\* row of the question being processed.
C8_OneRowPerLoggedQuestion ==
  /\ Len(UserEnquiries) = qa.asked - qa.not_logged
  /\ qa.pc \in {"search", "synthesize", "update"} =>
       /\ qa.enquiry_id = PyInt(Len(UserEnquiries))
       /\ UserEnquiries[Len(UserEnquiries)].question_text = qa.user_question
       /\ UserEnquiries[Len(UserEnquiries)].processing_status
            = "processing_search"

\* Two questions were asked; one was logged and one was not.
C8_Witness ==
  /\ qa.asked = 2
  /\ qa.not_logged = 1
  /\ Len(UserEnquiries) = 1
  /\ qa.pc = "prompt"

\* ------------------------------------------------------------------------
\* Properties of the classifier (SpecClassifier)
\* ------------------------------------------------------------------------

\* The first n characters of a sequence of characters.
FirstChars(chars, n) == SubSeq(chars, 1, IF Len(chars) < n THEN Len(chars) ELSE n)

\* The model was called and its reply is text that json.loads rejects.
ReplyIsNoJson ==
  /\ probe.result.called
  /\ probe.reply.kind = "content"
  /\ probe.reply.content.t = "str"
  /\ ~JsonLoads(probe.reply.content.v).ok

\* The model was called and the call, or the handling of its reply, failed
\* otherwise.
CallFailedOtherwise ==
  /\ probe.result.called
  /\ \/ probe.reply.kind = "raise"
     \/ probe.reply.kind = "content" /\ probe.reply.content.t # "str"

CheckedThisCycle(p) ==
  /\ lastCheck[p] # NoCheck
  /\ lastCheck[p].cycle = mon[p].cycle
  /\ mon[p].pc \in {"loop", "returned", "crashed"}
  /\ mon[p].active_sources # <<>>

\* C11: when the fetch of a source fails or answers with an unsuitable
\* content type, the check skips the source: its stored hash and summary
\* stay as they were, no DetectedChange row is appended, the classifier is
\* not called, and the loop goes on with the next source of the listing
\* (it returns only after the last one).
C11_FailedFetchSkipsSource ==
  \A p \in agents :
    (lastCheck[p] # NoCheck /\ ~lastCheck[p].fetch_ok) =>
      /\ lastCheck[p].outcome = "skipped"
      /\ lastCheck[p].stored_after = lastCheck[p].stored_before
      /\ lastCheck[p].appended = <<>>
      /\ ~lastCheck[p].called
      /\ CheckedThisCycle(p) =>
           /\ mon[p].pc # "crashed"
           /\ mon[p].i = lastCheck[p].index + 1
           /\ mon[p].pc = "returned" =>
                lastCheck[p].index = Len(mon[p].active_sources)

\* The first source of a listing of two was skipped after a failed fetch and
\* the loop stands at the second.
C11_Witness ==
  \E p \in agents :
    /\ lastCheck[p] # NoCheck
    /\ ~lastCheck[p].fetch_ok
    /\ lastCheck[p].outcome = "skipped"
    /\ lastCheck[p].index = 1
    /\ mon[p].pc = "loop"
    /\ mon[p].i = 2
    /\ Len(mon[p].active_sources) = 2

\* The sources named by the entries agent p has collected in its cycle.
EntrySources(p) ==
  [k \in 1..Len(mon[p].detected_changes_summary) |->
     mon[p].detected_changes_summary[k].source]

\* The sources of the DetectedChange rows created since p's cycle began.
RowSources(p) ==
  [k \in 1..(Len(DetectedChanges) - mon[p].rows_at_start) |->
     SourceName(DetectedChanges[mon[p].rows_at_start + k].source_id)]

\* The sources whose INSERT failed in p's cycle.
NotInserted(p) == {SourceName(mon[p].not_inserted[k]) :
                     k \in 1..Len(mon[p].not_inserted)}

\* The position of a source in the listing of p's cycle (0 if not listed).
ListingIndex(p, name) ==
  IF \E k \in 1..Len(mon[p].active_sources) : mon[p].active_sources[k].name = name
    THEN CHOOSE k \in 1..Len(mon[p].active_sources) :
           mon[p].active_sources[k].name = name
    ELSE 0

InListingOrder(p, names) ==
  /\ \A k \in 1..Len(names) : ListingIndex(p, names[k]) > 0
  /\ \A k \in 1..Len(names) : \A m \in 1..Len(names) :
       k < m => ListingIndex(p, names[k]) < ListingIndex(p, names[m])

\* C12 as stated: the sequence a cycle returns has exactly one entry for each
\* source for which a DetectedChange row was created in the cycle and none
\* for any other source, in the order of the listing, which is also the
\* order of the rows.
C12_EntriesAreRowsCreated ==
  \A p \in agents :
    mon[p].pc = "returned" =>
      /\ EntrySources(p) = RowSources(p)
      /\ InListingOrder(p, EntrySources(p))

\* C12: the sequence a cycle collects and returns has exactly one entry for
\* each source for which the cycle called add_detected_change, in the order
\* of the listing; the rows created in the cycle are, in the same order,
\* those of the entries whose INSERT did not fail, so an entry stands
\* without a row only where the INSERT failed at storage.
C12_EntriesAreRowsAttempted ==
  \A p \in agents :
    mon[p].pc \in {"loop", "returned"} =>
      /\ InListingOrder(p, EntrySources(p))
      /\ NotInserted(p) \subseteq {EntrySources(p)[k] : k \in 1..Len(EntrySources(p))}
      /\ RowSources(p) =
           SelectSeq(EntrySources(p), LAMBDA name : name \notin NotInserted(p))

\* A cycle over two sources has returned two entries, the first with its row
\* and the second without, its INSERT having failed.
C12_Witness ==
  \E p \in agents :
    /\ mon[p].pc = "returned"
    /\ Len(mon[p].detected_changes_summary) = 2
    /\ mon[p].not_inserted = <<2>>
    /\ Len(DetectedChanges) = mon[p].rows_at_start + 1
    /\ DetectedChanges[Len(DetectedChanges)].source_id = 1

\* C16: whenever a check finds the fingerprint of the fetched content
\* different from the stored one, it leaves the current hash and summary
\* stored, whatever the classifier returned (also an empty result, for which
\* no row is appended); and a check of the same content in the next cycle
\* does not call the classifier.
C16_StateUpdatedWhateverClassifierSays ==
  \A p \in agents :
    /\ ( /\ Compared(p)
         /\ lastCheck[p].current_hash
              # lastCheck[p].stored_before.last_content_hash )
       => StoredIsB(p)
    /\ SameContentAgain(p) => ~lastCheck[p].called

\* The latest check of agent p was the first of its source: it found no
\* stored fingerprint, and its fetch was answered with a text document.
FirstCheckFetched(p) ==
  /\ lastCheck[p] # NoCheck
  /\ lastCheck[p].fetch_ok \/ lastCheck[p].empty_body
  /\ lastCheck[p].stored_before.last_content_hash = None

\* C17: the first check of a source (no stored fingerprint) takes the changed
\* branch for every document it fetches, whatever the content, the
\* fingerprint of any content being a digest and never null: the classifier
\* is given the previous summary "N/A (first check)", and the current hash
\* and summary are left stored.
C17_FirstCheckAlwaysChanged ==
  \A p \in agents :
    FirstCheckFetched(p) =>
      /\ lastCheck[p].outcome \in {"changed", "raised"}
      /\ lastCheck[p].current_hash # None
      /\ lastCheck[p].previous_summary = FirstCheckSummary
      /\ StoredIsB(p)

\* The DetectedChange rows of source id.
RowsOf(id) == {k \in 1..Len(DetectedChanges) : DetectedChanges[k].source_id = id}

\* C18: cycles of two processes running side by side apply each check of a
\* source as one atomic unit, so that, however their steps interleave and
\* with no failure injected, each change of a source's content (the first
\* content seen, or a content other than the one fetched before) has
\* exactly one DetectedChange row, none lost and none twice, and once no
\* cycle is under way the stored hash and summary are those of the content
\* fetched last.
C18_ConcurrentChecksAreAtomic ==
  (faults = 0 /\ OPENAI_API_KEY) =>
    \A id \in SourceIds :
      /\ (\A p \in agents : mon[p].pc # "loop") =>
           Cardinality(RowsOf(id)) = seen[id].content_changes
      /\ (seen[id].cycle > 0 /\ \A p \in agents : mon[p].pc # "loop") =>
           /\ MonitoredSources[id].last_summary = seen[id].summary
           /\ MonitoredSources[id].last_content_hash = Md5(seen[id].summary.v)

\* The stored hash and summary of a row belong together: both are null, or
\* the hash is the fingerprint of the summary.
StoredPairConsistent(row) ==
  \/ row.last_content_hash = None /\ row.last_summary = None
  \/ /\ row.last_summary # None
     /\ row.last_content_hash = get_content_hash(row.last_summary)

\* C21: after any sequence of cycles, whatever fetches, classifier replies
\* and storage writes did, every source has its hash and summary both null
\* or its hash equal to the fingerprint of its summary; so no check that
\* found a differing fingerprint gave the classifier two identical
\* summaries, and none got the "summary identical" record back.
C21_StoredHashIsFingerprintOfSummary ==
  /\ \A id \in SourceIds : StoredPairConsistent(MonitoredSources[id])
  /\ \A p \in agents :
       (lastCheck[p] # NoCheck /\ lastCheck[p].outcome \in {"changed", "raised"}) =>
         /\ lastCheck[p].previous_summary # lastCheck[p].current_summary
         /\ lastCheck[p].analysis # NoSemanticChangeRecord

\* After two cycles with a failed UPDATE among them, one source has a hash
\* and summary stored and the other still has neither, its check having
\* taken the changed branch.
C21_Witness ==
  \E p \in agents :
    /\ mon[p].cycle = 2
    /\ lastCheck[p] # NoCheck
    /\ lastCheck[p].outcome = "changed"
    /\ lastCheck[p].upd_failed
    /\ lastCheck[p].source_id = 2
    /\ MonitoredSources[2].last_content_hash = None
    /\ MonitoredSources[1].last_content_hash # None
    /\ MonitoredSources[1].last_summary # None

\* The latest check of agent p found a differing fingerprint while the key
\* was missing.
ChangeWithoutKey(p) ==
  /\ Compared(p)
  /\ ~lastCheck[p].key
  /\ lastCheck[p].current_hash # lastCheck[p].stored_before.last_content_hash

\* The row is the one of the latest check of p, with the classifier's
\* "Configuration Error" record as its analysis.
ConfigurationErrorRow(p, row) ==
  /\ row.source_id = lastCheck[p].source_id
  /\ row.new_content_hash = lastCheck[p].current_hash
  /\ row.raw_ai_analysis_result.t = "dict"
  /\ DictGet(row.raw_ai_analysis_result, "change_type", None)
       = Str(<<"Configuration Error">>)

\* The source of the latest check of p is in the output of p's cycle.
ListedInOutput(p) ==
  \E k \in 1..Len(mon[p].detected_changes_summary) :
    mon[p].detected_changes_summary[k].source = SourceName(lastCheck[p].source_id)

\* The latest check of p, made with the key set, follows by one cycle a
\* check of the same content made while the key was missing.
KeyRestoredSameContent(p) ==
  /\ SameContentAgain(p)
  /\ lastCheck[p].key
  /\ ~lastCheck[p].earlier.key

\* C22 as stated: a check that finds a differing fingerprint while the key
\* is missing appends a DetectedChange row with change_type "Configuration
\* Error", lists the source in the cycle's output and stores the current
\* hash and summary; a check of the same content in a later cycle, the key
\* restored, does not call the classifier.
C22_ConfigurationErrorLoggedAlways ==
  \A p \in agents :
    /\ ChangeWithoutKey(p) =>
         /\ Len(lastCheck[p].appended) = 1
         /\ ConfigurationErrorRow(p, lastCheck[p].appended[1])
         /\ CheckedThisCycle(p) => ListedInOutput(p)
         /\ StoredIsB(p)
    /\ KeyRestoredSameContent(p) => ~lastCheck[p].called

\* C22, amended: a check that finds a differing fingerprint while the key is
\* missing gets the "Configuration Error" record without calling the model,
\* lists the source in the cycle's output, appends the row with that record
\* exactly when the INSERT succeeds, and stores the current hash and summary
\* exactly when the UPDATE succeeds; a check of the same content in the next
\* cycle, the key restored, finds nothing changed and does not call the
\* classifier exactly when that UPDATE had succeeded.
C22_ConfigurationErrorLogged ==
  \A p \in agents :
    /\ ChangeWithoutKey(p) =>
         /\ lastCheck[p].outcome = "changed"
         /\ ~lastCheck[p].called
         /\ HasGet(lastCheck[p].analysis)
         /\ DictGet(lastCheck[p].analysis, "change_type", None)
              = Str(<<"Configuration Error">>)
         /\ Len(lastCheck[p].appended) = (IF lastCheck[p].ins_failed THEN 0 ELSE 1)
         /\ ~lastCheck[p].ins_failed =>
              ConfigurationErrorRow(p, lastCheck[p].appended[1])
         /\ CheckedThisCycle(p) => ListedInOutput(p)
         /\ StoredIsB(p) <=> ~lastCheck[p].upd_failed
         /\ lastCheck[p].upd_failed =>
              lastCheck[p].stored_after = lastCheck[p].stored_before
    /\ KeyRestoredSameContent(p) =>
         /\ lastCheck[p].outcome = "unchanged"
              <=> lastCheck[p].earlier.stored = lastCheck[p].current_hash
         /\ lastCheck[p].outcome = "unchanged" => ~lastCheck[p].called
         /\ lastCheck[p].outcome = "unchanged" => lastCheck[p].appended = <<>>

\* A source was checked while the key was missing and its "Configuration
\* Error" row stored; the key was then set, and the next cycle found the
\* same content unchanged without calling the classifier.
C22_Witness ==
  \E p \in agents :
    /\ KeyRestoredSameContent(p)
    /\ lastCheck[p].outcome = "unchanged"
    /\ ~lastCheck[p].called
    /\ \E k \in 1..Len(DetectedChanges) :
         ConfigurationErrorRow(p, DetectedChanges[k])

\* ------------------------------------------------------------------------
\* More properties of the Q&A loop (SpecQA)
\* ------------------------------------------------------------------------

\* The step is the INSERT of a question failing at storage.
InsertFails == qa.pc = "prompt" /\ faults' = faults + 1

\* C13: when the initial INSERT of a question fails, the question is dropped:
\* the loop is back at the prompt without having searched, called the model
\* or updated a row, the table is as it was, the user has been told that
\* the question could not be logged, and the next question can be read.
C13_InsertFailureDropsQuestion ==
  [][InsertFails =>
       /\ qa'.pc = "prompt"
       /\ qa'.printed = CouldNotLog
       /\ UserEnquiries' = UserEnquiries
       /\ qa'.synth = qa.synth
       /\ qa'.updates = qa.updates
       /\ qa'.refused = qa.refused
       /\ qa'.asked = qa.asked + 1
       /\ qa'.user_question = None /\ qa'.enquiry_id = None]_vars

\* A question was dropped after its INSERT failed, and the question asked
\* after it has been logged, answered and updated.
C13_Witness ==
  /\ qa.pc = "prompt"
  /\ qa.not_logged = 1
  /\ qa.asked = 2
  /\ qa.updates = <<1>>
  /\ qa.printed # None /\ qa.printed # CouldNotLog
  /\ Len(UserEnquiries) = 1
  /\ UserEnquiries[1].generated_answer # None

\* The step is the UPDATE of an answered question failing at storage.
UpdateFails == qa.pc = "update" /\ faults' = faults + 1

\* C14: when the UPDATE that resolves a question fails, the user is still
\* shown the generated answer, and the loop is back at the prompt for the
\* next question.
C14_UpdateFailureStillAnswers ==
  [][UpdateFails =>
       /\ qa'.printed = AdvisorSays(qa.generated_answer_text)
       /\ qa'.pc = "prompt"
       /\ qa'.asked = qa.asked]_vars

\* The UPDATE of the first question failed, its answer was shown, and the
\* second question has been answered and updated since.
C14_Witness ==
  /\ qa.pc = "prompt"
  /\ qa.refused = {1}
  /\ qa.updates = <<0, 1>>
  /\ Len(UserEnquiries) = 2
  /\ UserEnquiries[1].generated_answer = None
  /\ UserEnquiries[2].generated_answer # None

\* The last line printed for the user is a generated answer.
AnswerShown ==
  /\ qa.printed # None
  /\ qa.printed.v[1] = "\nFinanceAdvisor says:\n"

\* C15: a storage read that fails is read as "nothing stored" and never ends
\* in a crash: a cycle whose listing could not be read returns an empty
\* sequence and has written no row; a question whose search could not be
\* read goes to synthesis with the context of a miss, and an answer for it is
\* produced and shown.
C15_ReadFailureIsAMiss ==
  /\ \A p \in agents :
       (mon[p].cycle > 0 /\ mon[p].active_sources = <<>>) =>
         /\ mon[p].pc = "returned"
         /\ mon[p].detected_changes_summary = <<>>
         /\ Len(DetectedChanges) = mon[p].rows_at_start
  /\ (qa.pc # "off" /\ qa.search_failed) =>
       /\ qa.pc = "synthesize" => qa.retrieved_context_summary = MissContext
       /\ qa.pc = "update" => qa.generated_answer_text.t = "str"
       /\ qa.pc \in {"prompt", "done"} => AnswerShown

\* ------------------------------------------------------------------------
\* Properties of the disclaimer step (SpecDisclaimer)
\* ------------------------------------------------------------------------

\* C19: on the path where the model answers, the disclaimer is appended
\* (after a blank line) if and only if it is not already a substring of the
\* model's output; an output that contains it is returned as it is, and
\* sending the returned answer through the step again changes nothing.
C19_DisclaimerAppendIdempotent ==
  (probe # NoProbe /\ "once" \in DOMAIN probe) =>
    LET contained == In(<<Disclaimer>>, probe.ai_answer.v)
    IN /\ contained => probe.once = probe.ai_answer
       /\ ~contained =>
            /\ Flatten(probe.once.v)
                 = Flatten(probe.ai_answer.v) \o Chars("\n\n") \o Chars(Disclaimer)
            /\ probe.once # probe.ai_answer
       /\ probe.twice = probe.once
       /\ Occurrences(Chars(Disclaimer), Flatten(probe.once.v)) >= 1

\* An output that holds only the first half of the disclaimer got the
\* disclaimer appended, and the second application left the answer as it
\* was.
C19_Witness ==
  /\ probe # NoProbe
  /\ "once" \in DOMAIN probe
  /\ probe.ai_answer = Str(<<"The basic rate of income tax is 20%.", "\n\n", DisclaimerHead>>)
  /\ probe.once.v = probe.ai_answer.v \o <<"\n\n", Disclaimer>>
  /\ probe.twice = probe.once

\* ------------------------------------------------------------------------
\* Properties of the keywords (SpecKeywords)
\* ------------------------------------------------------------------------

RECURSIVE StripTrailingPunctuation(_)
\* A token without the characters . , ? ! at its end.
StripTrailingPunctuation(token) ==
  IF token # <<>> /\ token[Len(token)] \in {".", ",", "?", "!"}
    THEN StripTrailingPunctuation(SubSeq(token, 1, Len(token) - 1))
    ELSE token

\* The keywords the claim describes: the question split on whitespace, each
\* token lower-cased and stripped of trailing punctuation, and the tokens of
\* length two or less dropped.
KeywordsAsClaimed(user_question) ==
  LET tokens == Split(Flatten(user_question.v))
      stripped == [k \in 1..Len(tokens) |->
                     StripTrailingPunctuation(Lower(tokens[k]))]
  IN SelectSeq(stripped, LAMBDA token : Len(token) > 2)

\* C20: the keywords of a question are its whitespace-separated tokens,
\* lower-cased, stripped of trailing punctuation from {. , ? !}, without
\* the tokens of length two or less: 'tax?' gives 'tax' and 'is?' gives
\* nothing.
C20_KeywordsStripPunctuation ==
  (probe # NoProbe /\ "keywords" \in DOMAIN probe) =>
    probe.keywords = KeywordsAsClaimed(probe.user_question)

====
